---- MODULE Spec2Model ----
(***************************************************************************)
(* The vault storage layer of obsidian-mcp: path validation, tag           *)
(* extraction, the mtime-validated content cache and the five vault        *)
(* operations, as a state machine over a small filesystem.                 *)
(*                                                                         *)
(* Paths, contents and tags are strings; a string is read character by     *)
(* character with SubSeq, as the Go code reads bytes.                      *)
(***************************************************************************)
EXTENDS Integers, Sequences, FiniteSets, TLC

VARIABLES
    fs,      \* the filesystem: absolute path of a regular file -> [content, mtime]
    now,     \* the filesystem clock; a write stamps the file with it
    cache,   \* Cache.entries: absolute path -> CacheEntry
    mu,      \* Cache.mu, the RWMutex: [w: the writer or NoThread, r: the readers]
    impl,    \* which of the two Cache sources of the repository is built
    th,      \* per goroutine: position, arguments, locals and result of its call
    hist,    \* history: per path, what the last Set stored, what the last write wrote,
             \* and what a Delete removed with no Set since
    probe    \* the pure path functions applied to one input (SpecPath only)

vars == <<fs, now, cache, mu, impl, th, hist, probe>>

----------------------------------------------------------------------------
(* Bounds of the model *)

MaxTime == 1        \* the clock runs 0..MaxTime
MaxPathLen == 4     \* SpecPath tries every string up to this length
MaxRewriteTime == 2 \* SpecTags: the clock stops here, after this many rewrites
MaxContentLen == 4  \* SpecExtract tries every content up to this length

----------------------------------------------------------------------------
(* Strings *)

Ch(s, i) == SubSeq(s, i, i)

\* strings.HasPrefix
HasPrefix(s, prefix) ==
    Len(prefix) <= Len(s) /\ SubSeq(s, 1, Len(prefix)) = prefix

\* strings.HasSuffix
HasSuffix(s, suffix) ==
    Len(suffix) <= Len(s) /\ SubSeq(s, Len(s) - Len(suffix) + 1, Len(s)) = suffix

\* strings.Contains
Contains(s, sub) ==
    \E i \in 1..(Len(s) - Len(sub) + 1) : SubSeq(s, i, i + Len(sub) - 1) = sub

Separator == "/"
DotDot == ".."
MdSuffix == ".md"

\* The elements of a path between its separators (empty ones included).
RECURSIVE SplitFrom(_, _, _)
SplitFrom(s, i, cur) ==
    IF i > Len(s) THEN <<cur>>
    ELSE IF Ch(s, i) = Separator THEN <<cur>> \o SplitFrom(s, i + 1, "")
    ELSE SplitFrom(s, i + 1, cur \o Ch(s, i))

Split(s) == SplitFrom(s, 1, "")

RECURSIVE JoinSegs(_)
JoinSegs(segs) ==
    IF segs = <<>> THEN ""
    ELSE IF Len(segs) = 1 THEN segs[1]
    ELSE segs[1] \o Separator \o JoinSegs(Tail(segs))

\* filepath.Clean's pass over the elements: out is the cleaned prefix so far.
RECURSIVE CleanSegs(_, _, _)
CleanSegs(segs, rooted, out) ==
    IF segs = <<>> THEN out
    ELSE LET e == Head(segs)
             rest == Tail(segs)
         IN  IF e = "" \/ e = "." THEN CleanSegs(rest, rooted, out)
             ELSE IF e = DotDot
             THEN IF out # <<>> /\ out[Len(out)] # DotDot
                  THEN CleanSegs(rest, rooted, SubSeq(out, 1, Len(out) - 1))
                  ELSE IF rooted THEN CleanSegs(rest, rooted, out)
                  ELSE CleanSegs(rest, rooted, Append(out, DotDot))
             ELSE CleanSegs(rest, rooted, Append(out, e))

\* filepath.Clean (Unix): the shortest equivalent path by lexical processing.
Clean(path) ==
    IF path = "" THEN "."
    ELSE LET rooted == Ch(path, 1) = Separator
             out == CleanSegs(Split(path), rooted, <<>>)
         IN  IF rooted THEN Separator \o JoinSegs(out)
             ELSE IF out = <<>> THEN "." ELSE JoinSegs(out)

\* filepath.Join of two elements: the non-empty ones joined by a separator, cleaned.
Join(a, b) ==
    IF a = "" /\ b = "" THEN ""
    ELSE IF a = "" THEN Clean(b)
    ELSE IF b = "" THEN Clean(a)
    ELSE Clean(a \o Separator \o b)

\* filepath.Dir of a cleaned absolute path.
RECURSIVE LastSep(_, _)
LastSep(s, i) == IF i = 0 THEN 0 ELSE IF Ch(s, i) = Separator THEN i ELSE LastSep(s, i - 1)

Dir(path) ==
    LET i == LastSep(path, Len(path))
    IN  IF i = 0 THEN "." ELSE IF i = 1 THEN Separator ELSE Clean(SubSeq(path, 1, i - 1))

----------------------------------------------------------------------------
(* The vault's root and its sentinel errors *)

\* vault.basePath: NewVault stores filepath.Abs of its argument.
BasePath == "/v"

NoError == "nil"
ErrNoteNotFound == "note not found"
ErrPathTraversal == "path traversal not allowed"
ErrInvalidPath == "invalid path"
ErrNotMarkdown == "only .md files allowed"
ErrAlreadyExists == "note already exists"
ErrCancelled == "context canceled"
ErrInvalidQuery == "invalid query regex"
ErrReadFile == "failed to read file"

\* The test validatePath, List and Search apply to the joined absolute path.
MutContained(fullPath) == TRUE

Contained(fullPath) == HasPrefix(fullPath, BasePath)

\* validatePath without its check of the cleaned path for "..".
MutValidatePath(path) ==
    IF path = "" THEN [err |-> ErrInvalidPath, full |-> ""]
    ELSE LET fullPath == Join(BasePath, Clean(path))
         IN  IF ~Contained(fullPath) THEN [err |-> ErrPathTraversal, full |-> ""]
             ELSE IF ~HasSuffix(fullPath, MdSuffix) THEN [err |-> ErrNotMarkdown, full |-> ""]
             ELSE [err |-> NoError, full |-> fullPath]

\* validatePath without its test of the suffix.
MutValidatePathSuffix(path) ==
    IF path = "" THEN [err |-> ErrInvalidPath, full |-> ""]
    ELSE LET cleaned == Clean(path)
             fullPath == Join(BasePath, cleaned)
         IN  IF Contains(cleaned, DotDot) THEN [err |-> ErrPathTraversal, full |-> ""]
             ELSE IF ~Contained(fullPath) THEN [err |-> ErrPathTraversal, full |-> ""]
             ELSE [err |-> NoError, full |-> fullPath]

\* validatePath that returns the cleaned path as it is, not joined to the root.
MutValidatePathRelative(path) ==
    IF path = "" THEN [err |-> ErrInvalidPath, full |-> ""]
    ELSE LET cleaned == Clean(path)
             fullPath == Join(BasePath, cleaned)
         IN  IF Contains(cleaned, DotDot) THEN [err |-> ErrPathTraversal, full |-> ""]
             ELSE IF ~Contained(fullPath) THEN [err |-> ErrPathTraversal, full |-> ""]
             ELSE IF ~HasSuffix(fullPath, MdSuffix) THEN [err |-> ErrNotMarkdown, full |-> ""]
             ELSE [err |-> NoError, full |-> cleaned]

\* vault.validatePath: the full filesystem path of a note, or the error.
validatePath(path) ==
    IF path = "" THEN [err |-> ErrInvalidPath, full |-> ""]
    ELSE LET cleaned == Clean(path)
             fullPath == Join(BasePath, cleaned)
         IN  IF Contains(cleaned, DotDot) THEN [err |-> ErrPathTraversal, full |-> ""]
             ELSE IF ~Contained(fullPath) THEN [err |-> ErrPathTraversal, full |-> ""]
             ELSE IF ~HasSuffix(fullPath, MdSuffix) THEN [err |-> ErrNotMarkdown, full |-> ""]
             ELSE [err |-> NoError, full |-> fullPath]

\* The search directory without the test of the cleaned subpath for "..".
MutSearchDir(subpath) ==
    LET searchPath == IF subpath = "" THEN BasePath ELSE Join(BasePath, Clean(subpath))
    IN  IF ~Contained(searchPath) THEN [err |-> ErrPathTraversal, full |-> ""]
        ELSE [err |-> NoError, full |-> searchPath]

\* The search directory List and Search build from subpath.
searchDir(subpath) ==
    IF subpath # "" /\ Contains(Clean(subpath), DotDot)
    THEN [err |-> ErrPathTraversal, full |-> ""]
    ELSE LET searchPath == IF subpath = "" THEN BasePath ELSE Join(BasePath, Clean(subpath))
         IN  IF ~Contained(searchPath) THEN [err |-> ErrPathTraversal, full |-> ""]
             ELSE [err |-> NoError, full |-> searchPath]

----------------------------------------------------------------------------
(* Tag extraction (tags.go) *)

UpperChars == "ABCDEFGHIJKLMNOPQRSTUVWXYZ"
LowerChars == "abcdefghijklmnopqrstuvwxyz"
DigitChars == "0123456789"

InChars(c, chars) == \E i \in 1..Len(chars) : Ch(chars, i) = c

\* A \w that takes the dash for a word character.
MutIsWordChar(c) ==
    InChars(c, UpperChars) \/ InChars(c, LowerChars) \/ InChars(c, DigitChars) \/ c = "_"
        \/ c = "-"

\* \w of the regular expression: a letter, a digit or the underscore.
IsWordChar(c) ==
    InChars(c, UpperChars) \/ InChars(c, LowerChars) \/ InChars(c, DigitChars) \/ c = "_"

ToLowerChar(c) ==
    IF InChars(c, UpperChars)
    THEN Ch(LowerChars, CHOOSE i \in 1..Len(UpperChars) : Ch(UpperChars, i) = c)
    ELSE c

\* strings.ToLower
RECURSIVE ToLower(_)
ToLower(s) == IF s = "" THEN "" ELSE ToLowerChar(Ch(s, 1)) \o ToLower(SubSeq(s, 2, Len(s)))

\* The end of the run of word characters that starts at i (i - 1 when there is none).
RECURSIVE WordEnd(_, _)
WordEnd(s, i) ==
    IF i <= Len(s) /\ IsWordChar(Ch(s, i)) THEN WordEnd(s, i + 1) ELSE i - 1

\* tagRegex.FindAllStringSubmatch: the capture group of every leftmost, non-overlapping
\* match of #(\w+) from position i on.
RECURSIVE FindAllTags(_, _)
FindAllTags(s, i) ==
    IF i > Len(s) THEN <<>>
    ELSE IF Ch(s, i) = "#" /\ WordEnd(s, i + 1) >= i + 1
    THEN <<SubSeq(s, i + 1, WordEnd(s, i + 1))>> \o FindAllTags(s, WordEnd(s, i + 1) + 1)
    ELSE FindAllTags(s, i + 1)

\* ExtractTags without the lowercase normalisation.
MutExtractTags(content) ==
    LET matches == FindAllTags(content, 1)
    IN  {matches[k] : k \in 1..Len(matches)}

\* ExtractTags: the keys of tagMap; the slice built from the map has no fixed order,
\* so the result is the set of its elements.
ExtractTags(content) ==
    LET matches == FindAllTags(content, 1)
    IN  {ToLower(matches[k]) : k \in 1..Len(matches)}

\* The slice ExtractTags returns: []string{} when nothing matches (lines 17-19), else
\* the keys of tagMap in the order the range over the map yields them (lines 31-34),
\* which Go leaves open; the slice is made, so it is never nil.
TagSlices(content) ==
    LET keys == ExtractTags(content)
        n == Cardinality(keys)
    IN  {[null |-> FALSE, elems |-> s] :
            s \in {q \in [1..n -> keys] : \A i, j \in 1..n : q[i] = q[j] => i = j}}

----------------------------------------------------------------------------
(* State: maps, the lock, the goroutines *)

Threads == {"t1", "t2"}
NoThread == "none"

\* The two sources of Cache: src/internal/vault/cache.go, and the one with the
\* re-verification after the stat and the defensive copies.
ImplPlain == "cache.go"
ImplChecked == "cache.go+recheck"

EmptyMap == [k \in {} |-> 0]

MapPut(m, k, v) == [x \in DOMAIN m \cup {k} |-> IF x = k THEN v ELSE m[x]]
MapDel(m, k) == [x \in DOMAIN m \ {k} |-> m[x]]

\* time.Time{}: the Mtime of the zero CacheEntry a failed map lookup yields.
ZeroTime == -1

ZeroEntry == [content |-> "", tags |-> {}, mtime |-> ZeroTime]

Idle ==
    [pc |-> "idle", op |-> "none", arg |-> "", arg2 |-> "", recursive |-> FALSE,
     filter |-> {}, full |-> "", err |-> NoError, out |-> "", notes |-> <<>>,
     key |-> "", entry |-> ZeroEntry, exists |-> FALSE, fileMtime |-> ZeroTime,
     hit |-> FALSE, ret |-> "none", scontent |-> "", stags |-> {}, smtime |-> ZeroTime,
     statMtime |-> ZeroTime, queue |-> <<>>, cancelled |-> FALSE,
     still |-> TRUE, given |-> ZeroEntry, purged |-> FALSE, purgedMtime |-> ZeroTime,
     touched |-> {}, modified |-> FALSE, sawSet |-> FALSE, gone |-> ZeroEntry]

NoProbe == [fn |-> "none", in |-> "", contained |-> FALSE]

\* What one step of goroutine t leaves in th: r is t's record after the step. The
\* history fields are observations: modified records that a step of the call changed a
\* file or the cache, sawSet that another goroutine's Set stored under the key of
\* t's Get after its lookup found an entry.
Step(t, r) ==
    th' = [u \in Threads |->
             IF u = t
             THEN [r EXCEPT !.modified = th[t].modified \/ fs' # fs \/ cache' # cache]
             ELSE th[u]]

\* The same, for the step of t in which Set stores under key k.
StepSet(t, r, k) ==
    th' = [u \in Threads |->
             IF u = t
             THEN [r EXCEPT !.modified = th[t].modified \/ fs' # fs \/ cache' # cache]
             ELSE IF th[u].key = k /\ th[u].exists
                     /\ (th[u].pc \in {"GetStat", "GetRLock2", "GetRecheck", "GetLock", "GetPurge"}
                         \/ (th[u].pc = "done" /\ th[u].op = "Get"))
                  THEN [th[u] EXCEPT !.sawSet = TRUE]
                  ELSE th[u]]

Finish(r, e) == [r EXCEPT !.pc = "done", !.err = e]

----------------------------------------------------------------------------
(* What the walk callbacks of List and Search do with a note's content and tags *)

\* filepath.Rel(basePath, path) for a path at or below basePath.
Rel(path) ==
    IF path = BasePath THEN "." ELSE SubSeq(path, Len(BasePath) + 2, Len(path))

\* Search that takes every query as compiled.
MutCompiles(query) == TRUE

\* regexp.Compile("(?i)" + query) for the queries of the model: a run of word
\* characters and spaces compiles, the lone "(" does not.
Compiles(query) ==
    \A i \in 1..Len(query) : IsWordChar(Ch(query, i)) \/ Ch(query, i) = " "

\* queryRegex.MatchString for such a query: a case-insensitive substring match.
MatchString(query, content) == Contains(ToLower(content), ToLower(query))

\* The walk goes on to its next entry, or returns the notes. The locals of the
\* callback that has returned are gone.
Continue(r) ==
    IF r.queue = <<>> THEN Finish(r, NoError)
    ELSE [r EXCEPT !.pc = "Walk", !.key = "", !.entry = ZeroEntry, !.exists = FALSE,
                   !.fileMtime = ZeroTime, !.hit = FALSE, !.ret = "none", !.scontent = "",
                   !.stags = {}, !.smtime = ZeroTime, !.statMtime = ZeroTime,
                   !.still = TRUE, !.given = ZeroEntry, !.purged = FALSE,
                   !.purgedMtime = ZeroTime, !.sawSet = FALSE, !.gone = ZeroEntry]

\* Search that includes a note when either of its filters lets it through.
MutSearchInclude(r, content, tags) ==
    IF (r.arg2 # "" /\ ~MatchString(r.arg2, content)) /\ (r.filter # {} /\ tags \cap r.filter = {})
    THEN Continue(r)
    ELSE Continue([r EXCEPT !.notes = Append(@, [path |-> Rel(r.key), tags |-> tags])])

\* List, lines 168-173: the note is appended.
ListInclude(r, content, tags) ==
    Continue([r EXCEPT !.notes = Append(@, [path |-> Rel(r.key), tags |-> tags])])

\* Search, lines 255-285: the query filter, the tag filter, then the note is appended.
SearchInclude(r, content, tags) ==
    IF r.arg2 # "" /\ ~MatchString(r.arg2, content) THEN Continue(r)
    ELSE IF r.filter # {} /\ tags \cap r.filter = {} THEN Continue(r)
    ELSE Continue([r EXCEPT !.notes = Append(@, [path |-> Rel(r.key), tags |-> tags])])

Include(r, content, tags) ==
    IF r.op = "List" THEN ListInclude(r, content, tags) ELSE SearchInclude(r, content, tags)

----------------------------------------------------------------------------
(* Cache (cache.go) *)

\* Cache.Get's test of the stat against the entry: stat.ModTime().Equal(entryMtime).
MutFresh(fileMtime, entryMtime) == TRUE

\* A comparison that takes the entry for valid unless the file is older than it.
MutFreshNewer(fileMtime, entryMtime) == fileMtime >= entryMtime

Fresh(fileMtime, entryMtime) == fileMtime = entryMtime

\* The purge without its double-check under the exclusive lock.
MutPurgeAllowed(key, entryMtime) == key \in DOMAIN cache

\* The double-check before deletion: the entry is still there with the same Mtime.
PurgeAllowed(key, entryMtime) ==
    key \in DOMAIN cache /\ cache[key].mtime = entryMtime

\* Set storing the entry without the Mtime it was given.
MutNewEntry(content, tags, mtime) == [content |-> content, tags |-> tags, mtime |-> ZeroTime]

\* The CacheEntry Set builds from its arguments.
NewEntry(content, tags, mtime) == [content |-> content, tags |-> tags, mtime |-> mtime]

\* The caller's continuation after Get returned (entry, ok).
AfterGet(r, entry, ok) ==
    LET g == [r EXCEPT !.hit = ok, !.out = IF r.op = "Get" THEN entry.content ELSE r.out,
                       !.stags = IF ok THEN entry.tags ELSE {}]
    IN  CASE r.ret = "done" -> Finish(g, NoError)
          [] r.ret = "Read" ->
                IF ok THEN Finish([g EXCEPT !.out = entry.content], NoError)
                ELSE [g EXCEPT !.pc = "ReadFile"]
          [] r.ret = "Walk" ->
                IF ok THEN Include(g, entry.content, entry.tags)
                ELSE [g EXCEPT !.pc = "WalkRead"]

\* Cache.Get, lines 34-35: the shared lock is taken.
GetRLock(t) ==
    /\ UNCHANGED <<fs, now, cache, impl, hist, probe>>
    /\ th[t].pc = "GetRLock"
    /\ mu.w = NoThread
    /\ mu' = [mu EXCEPT !.r = @ \cup {t}]
    /\ Step(t, [th[t] EXCEPT !.pc = "GetLookup"])

\* A Get that keeps the shared lock, once it has found an entry, during the stat.
MutGetLookup(t) ==
    /\ UNCHANGED <<fs, now, cache, impl, hist, probe>>
    /\ th[t].pc = "GetLookup"
    /\ mu' = IF th[t].key \in DOMAIN cache THEN mu ELSE [mu EXCEPT !.r = @ \ {t}]
    /\ LET k == th[t].key
           exists == k \in DOMAIN cache
           entry == IF exists THEN cache[k] ELSE ZeroEntry
           r == [th[t] EXCEPT !.entry = entry, !.exists = exists]
       IN  Step(t, IF exists THEN [r EXCEPT !.pc = "GetStat"]
                   ELSE AfterGet(r, ZeroEntry, FALSE))

\* Cache.Get, lines 35-41: the lookup, the unlock, and the miss when there is no entry.
GetLookup(t) ==
    /\ UNCHANGED <<fs, now, cache, impl, hist, probe>>
    /\ th[t].pc = "GetLookup"
    /\ mu' = [mu EXCEPT !.r = @ \ {t}]
    /\ LET k == th[t].key
           exists == k \in DOMAIN cache
           entry == IF exists THEN cache[k] ELSE ZeroEntry
           r == [th[t] EXCEPT !.entry = entry, !.exists = exists,
                              !.given = IF k \in DOMAIN hist.lastSet THEN hist.lastSet[k]
                                        ELSE ZeroEntry,
                              !.gone = IF k \in DOMAIN hist.deleted THEN hist.deleted[k]
                                       ELSE ZeroEntry]
       IN  Step(t, IF exists THEN [r EXCEPT !.pc = "GetStat"]
                   ELSE AfterGet(r, ZeroEntry, FALSE))

\* Get that returns the entry it found without a stat of the file.
MutGetStat(t) ==
    /\ UNCHANGED <<fs, now, cache, mu, impl, hist, probe>>
    /\ th[t].pc = "GetStat"
    /\ Step(t, AfterGet(th[t], th[t].entry, TRUE))

\* Cache.Get, lines 44-65: os.Stat outside the lock and the comparison of the times.
GetStat(t) ==
    /\ UNCHANGED <<fs, now, cache, mu, impl, hist, probe>>
    /\ th[t].pc = "GetStat"
    /\ LET k == th[t].key
           r == [th[t] EXCEPT !.touched = @ \cup {k},
                              !.fileMtime = IF k \in DOMAIN fs THEN fs[k].mtime ELSE ZeroTime]
       IN  Step(t, IF k \notin DOMAIN fs THEN [r EXCEPT !.pc = "GetLock"]
                   ELSE IF impl = ImplChecked THEN [r EXCEPT !.pc = "GetRLock2"]
                   ELSE IF ~Fresh(fs[k].mtime, th[t].entry.mtime) THEN [r EXCEPT !.pc = "GetLock"]
                   ELSE AfterGet(r, th[t].entry, TRUE))

\* The re-verifying Get: the shared lock is taken again after the stat.
GetRLock2(t) ==
    /\ UNCHANGED <<fs, now, cache, impl, hist, probe>>
    /\ th[t].pc = "GetRLock2"
    /\ mu.w = NoThread
    /\ mu' = [mu EXCEPT !.r = @ \cup {t}]
    /\ Step(t, [th[t] EXCEPT !.pc = "GetRecheck"])

\* The re-verifying Get: a miss when the entry was replaced or removed during the
\* stat, then the comparison of the times, then the copy that is returned.
GetRecheck(t) ==
    /\ UNCHANGED <<fs, now, cache, impl, hist, probe>>
    /\ th[t].pc = "GetRecheck"
    /\ mu' = [mu EXCEPT !.r = @ \ {t}]
    /\ LET k == th[t].key
           r == th[t]
       IN  Step(t, IF k \notin DOMAIN cache \/ cache[k].mtime # r.entry.mtime
                   THEN AfterGet([r EXCEPT !.still = FALSE], ZeroEntry, FALSE)
                   ELSE IF ~Fresh(r.fileMtime, r.entry.mtime) THEN [r EXCEPT !.pc = "GetLock"]
                   ELSE AfterGet(r, r.entry, TRUE))

\* Cache.Get, lines 47 and 57: the exclusive lock is taken for the purge.
GetLock(t) ==
    /\ UNCHANGED <<fs, now, cache, impl, hist, probe>>
    /\ th[t].pc = "GetLock"
    /\ mu.w = NoThread /\ mu.r = {}
    /\ mu' = [mu EXCEPT !.w = t]
    /\ Step(t, [th[t] EXCEPT !.pc = "GetPurge"])

\* The purge that reports the miss and leaves the stale entry in the map.
MutGetPurge(t) ==
    /\ th[t].pc = "GetPurge"
    /\ UNCHANGED <<fs, now, cache, impl, hist, probe>>
    /\ mu' = [mu EXCEPT !.w = NoThread]
    /\ Step(t, AfterGet(th[t], ZeroEntry, FALSE))

\* Cache.Get, lines 48-52 and 58-62: the double-checked delete, the unlock, the miss.
GetPurge(t) ==
    /\ UNCHANGED <<fs, now, impl, probe>>
    /\ th[t].pc = "GetPurge"
    /\ mu' = [mu EXCEPT !.w = NoThread]
    /\ LET k == th[t].key
           del == PurgeAllowed(k, th[t].entry.mtime)
       IN  /\ cache' = IF del THEN MapDel(cache, k) ELSE cache
           /\ hist' = IF del THEN [hist EXCEPT !.lastSet = MapDel(@, k)] ELSE hist
           /\ Step(t, AfterGet([th[t] EXCEPT !.purged = del,
                                              !.purgedMtime = IF del THEN cache[k].mtime ELSE ZeroTime],
                                ZeroEntry, FALSE))

\* The caller's continuation after Set returned.
AfterSet(r) ==
    CASE r.ret = "done" -> Finish(r, NoError)
      [] r.ret = "Read" -> Finish(r, NoError)
      [] r.ret = "Write" -> Finish(r, NoError)
      [] r.ret = "Walk" -> Include(r, r.scontent, r.stags)

\* A call of Set(key, content, tags, mtime) from position r, to continue at ret.
StartSet(r, key, content, tags, mtime, ret) ==
    [r EXCEPT !.pc = "SetLock", !.key = key, !.scontent = content, !.stags = tags,
              !.smtime = mtime, !.ret = ret]

\* A call of Get(key) from position r, to continue at ret.
StartGet(r, key, ret) == [r EXCEPT !.pc = "GetRLock", !.key = key, !.ret = ret]

\* Cache.Set, line 70: the exclusive lock is taken.
SetLock(t) ==
    /\ UNCHANGED <<fs, now, cache, impl, hist, probe>>
    /\ th[t].pc = "SetLock"
    /\ mu.w = NoThread /\ mu.r = {}
    /\ mu' = [mu EXCEPT !.w = t]
    /\ Step(t, [th[t] EXCEPT !.pc = "SetStore"])

\* A Set that returns without releasing the lock.
MutSetStore(t) ==
    /\ UNCHANGED <<fs, now, impl, probe, mu>>
    /\ th[t].pc = "SetStore"
    /\ LET r == th[t]
       IN  /\ cache' = MapPut(cache, r.key, NewEntry(r.scontent, r.stags, r.smtime))
           /\ hist' = [hist EXCEPT !.lastSet =
                          MapPut(@, r.key, [content |-> r.scontent, tags |-> r.stags, mtime |-> r.smtime]),
                                    !.deleted = MapDel(@, r.key)]
           /\ StepSet(t, AfterSet(r), r.key)

\* Cache.Set, lines 71-76: the entry is stored and the lock released.
SetStore(t) ==
    /\ UNCHANGED <<fs, now, impl, probe>>
    /\ th[t].pc = "SetStore"
    /\ mu' = [mu EXCEPT !.w = NoThread]
    /\ LET r == th[t]
       IN  /\ cache' = MapPut(cache, r.key, NewEntry(r.scontent, r.stags, r.smtime))
           /\ hist' = [hist EXCEPT !.lastSet =
                          MapPut(@, r.key, [content |-> r.scontent, tags |-> r.stags, mtime |-> r.smtime]),
                                    !.deleted = MapDel(@, r.key)]
           /\ StepSet(t, AfterSet(r), r.key)

\* Cache.Delete, line 81: the exclusive lock is taken.
DeleteLock(t) ==
    /\ UNCHANGED <<fs, now, cache, impl, hist, probe>>
    /\ th[t].pc = "DeleteLock"
    /\ mu.w = NoThread /\ mu.r = {}
    /\ mu' = [mu EXCEPT !.w = t]
    /\ Step(t, [th[t] EXCEPT !.pc = "DeleteRemove"])

\* The history after Delete(k) has removed what the map held for k.
NoteDelete(k) ==
    [hist EXCEPT !.lastSet = MapDel(@, k),
                 !.deleted = IF k \in DOMAIN cache THEN MapPut(@, k, cache[k]) ELSE @]

\* A Delete that removes the entry only when the file is gone or has another time.
MutDeleteRemove(t) ==
    /\ UNCHANGED <<fs, now, impl, probe>>
    /\ th[t].pc = "DeleteRemove"
    /\ mu' = [mu EXCEPT !.w = NoThread]
    /\ LET k == th[t].key
       IN  cache' = IF k \in DOMAIN cache /\ k \in DOMAIN fs /\ fs[k].mtime = cache[k].mtime
                    THEN cache ELSE MapDel(cache, k)
    /\ hist' = NoteDelete(th[t].key)
    /\ Step(t, Finish(th[t], NoError))

\* A Delete that empties the map.
MutDeleteAll(t) ==
    /\ UNCHANGED <<fs, now, impl, probe>>
    /\ th[t].pc = "DeleteRemove"
    /\ mu' = [mu EXCEPT !.w = NoThread]
    /\ cache' = EmptyMap
    /\ hist' = NoteDelete(th[t].key)
    /\ Step(t, Finish(th[t], NoError))

\* Cache.Delete, lines 82-83: the entry is removed and the lock released.
DeleteRemove(t) ==
    /\ UNCHANGED <<fs, now, impl, probe>>
    /\ th[t].pc = "DeleteRemove"
    /\ mu' = [mu EXCEPT !.w = NoThread]
    /\ cache' = MapDel(cache, th[t].key)
    /\ hist' = NoteDelete(th[t].key)
    /\ Step(t, Finish(th[t], NoError))

----------------------------------------------------------------------------
(* The callers of the cache alone (cache_test.go), and the world around the vault *)

NotePaths == {"/v/a.md", "/v/d/a.md"}
Contents == {"x #A", "y"}
Times == 0..MaxTime

CallGet(t, k) ==
    /\ UNCHANGED <<fs, now, cache, mu, impl, hist, probe>>
    /\ th[t].pc = "idle"
    /\ Step(t, StartGet([Idle EXCEPT !.op = "Get", !.arg = k], k, "done"))

CallSet(t, k, content, tags, mtime) ==
    /\ UNCHANGED <<fs, now, cache, mu, impl, hist, probe>>
    /\ th[t].pc = "idle"
    /\ Step(t, StartSet([Idle EXCEPT !.op = "Set", !.arg = k], k, content, tags, mtime, "done"))

CallDelete(t, k) ==
    /\ UNCHANGED <<fs, now, cache, mu, impl, hist, probe>>
    /\ th[t].pc = "idle"
    /\ Step(t, [Idle EXCEPT !.op = "Delete", !.arg = k, !.key = k, !.pc = "DeleteLock"])

\* The call has returned; the goroutine is free for the next one.
Return(t) ==
    /\ th[t].pc = "done"
    /\ th' = [th EXCEPT ![t] = Idle]
    /\ UNCHANGED <<fs, now, cache, mu, impl, hist, probe>>

\* The filesystem clock advances.
Tick ==
    /\ now < MaxTime
    /\ now' = now + 1
    /\ UNCHANGED <<fs, cache, mu, impl, th, hist, probe>>

\* Another process writes a file of the vault.
ExtWrite(p, content) ==
    /\ fs' = MapPut(fs, p, [content |-> content, mtime |-> now])
    /\ hist' = [hist EXCEPT !.written = MapDel(@, p)]
    /\ UNCHANGED <<now, cache, mu, impl, th, probe>>

\* Another process removes a file of the vault.
ExtDelete(p) ==
    /\ p \in DOMAIN fs
    /\ fs' = MapDel(fs, p)
    /\ hist' = [hist EXCEPT !.written = MapDel(@, p)]
    /\ UNCHANGED <<now, cache, mu, impl, th, probe>>

\* The Set calls of the cache's own callers: a content with a tag list.
SetArgs == {[content |-> "x #A", tags |-> {"a"}], [content |-> "y", tags |-> {}]}
CacheKeys == {"/v/a.md"}

\* The steps of Get and Set in src/internal/vault/cache.go.
CacheSteps(t) ==
    \/ GetRLock(t) \/ GetLookup(t) \/ GetStat(t)
    \/ GetLock(t) \/ GetPurge(t)
    \/ SetLock(t) \/ SetStore(t)

\* The steps the re-verifying Get adds.
RecheckSteps(t) == GetRLock2(t) \/ GetRecheck(t)

Init ==
    /\ fs = EmptyMap
    /\ now = 0
    /\ cache = EmptyMap
    /\ mu = [w |-> NoThread, r |-> {}]
    /\ impl \in {ImplPlain, ImplChecked}
    /\ th = [t \in Threads |-> Idle]
    /\ hist = [lastSet |-> EmptyMap, written |-> EmptyMap, deleted |-> EmptyMap]
    /\ probe = NoProbe

\* The cache driven directly by concurrent goroutines, as cache_test.go drives it.
NextCache ==
    \/ \E t \in Threads, k \in CacheKeys : CallGet(t, k)
    \/ \E t \in Threads, k \in CacheKeys, a \in SetArgs, m \in Times :
          CallSet(t, k, a.content, a.tags, m)
    \/ \E t \in Threads, k \in CacheKeys : CallDelete(t, k)
    \/ \E t \in Threads : CacheSteps(t)
    \/ \E t \in Threads : RecheckSteps(t)
    \/ \E t \in Threads : DeleteLock(t) \/ DeleteRemove(t)
    \/ \E t \in Threads : Return(t)
    \/ Tick
    \/ \E p \in CacheKeys : ExtWrite(p, "y")
    \/ \E p \in CacheKeys : ExtDelete(p)

SpecCache == Init /\ [][NextCache]_vars

----------------------------------------------------------------------------
(* The cache under a fair scheduler *)

\* The steps at which a goroutine waits for the lock.
AcquireSteps(t) ==
    GetRLock(t) \/ GetRLock2(t) \/ GetLock(t) \/ SetLock(t) \/ DeleteLock(t)

\* The steps a goroutine takes without waiting: those under the lock, and the stat.
RunSteps(t) ==
    GetLookup(t) \/ GetStat(t) \/ GetRecheck(t) \/ GetPurge(t) \/ SetStore(t) \/ DeleteRemove(t)

\* Concurrent Get, Set and Delete of one path, whose file appears and disappears.
NextLive ==
    \/ \E t \in Threads, k \in CacheKeys : CallGet(t, k)
    \/ \E t \in Threads, k \in CacheKeys : CallSet(t, k, "y", {}, now)
    \/ \E t \in Threads, k \in CacheKeys : CallDelete(t, k)
    \/ \E t \in Threads : AcquireSteps(t)
    \/ \E t \in Threads : RunSteps(t)
    \/ \E t \in Threads : Return(t)
    \/ \E p \in CacheKeys : ExtWrite(p, "y")
    \/ \E p \in CacheKeys : ExtDelete(p)

\* A goroutine that can run does run, and os.Stat returns; a goroutine waiting for the
\* lock gets it if it is free again and again (sync.RWMutex does not starve a waiter).
Fairness ==
    \A t \in Threads : WF_vars(RunSteps(t)) /\ SF_vars(AcquireSteps(t))

SpecLive == Init /\ [][NextLive]_vars /\ Fairness

----------------------------------------------------------------------------
(* Vault: Read, Create, Update (vault.go) *)

\* os.WriteFile: the file holds the content, stamped with the clock.
WriteFile(path, content) == MapPut(fs, path, [content |-> content, mtime |-> now])

\* A vault write goes into the history of the path.
NoteWrite(path, content) == [hist EXCEPT !.written = MapPut(@, path, content)]

CallRead(t, p) ==
    /\ th[t].pc = "idle"
    /\ UNCHANGED <<fs, now, cache, mu, impl, hist, probe>>
    /\ LET v == validatePath(p)
           r == [Idle EXCEPT !.op = "Read", !.arg = p]
       IN  Step(t, IF v.err # NoError THEN Finish(r, v.err)
                   ELSE [r EXCEPT !.full = v.full, !.pc = "ReadStat"])

\* Read that calls Get without its own stat of the file.
MutReadStat(t) ==
    /\ th[t].pc = "ReadStat"
    /\ UNCHANGED <<fs, now, cache, mu, impl, hist, probe>>
    /\ Step(t, StartGet(th[t], th[t].full, "Read"))

\* Read, lines 303-312: the stat that decides NoteNotFound, then the call of Get.
ReadStat(t) ==
    /\ th[t].pc = "ReadStat"
    /\ UNCHANGED <<fs, now, cache, mu, impl, hist, probe>>
    /\ LET r == [th[t] EXCEPT !.touched = @ \cup {th[t].full}]
       IN  Step(t, IF r.full \notin DOMAIN fs THEN Finish(r, ErrNoteNotFound)
                   ELSE StartGet([r EXCEPT !.statMtime = fs[r.full].mtime], r.full, "Read"))

\* Read, lines 317-324: the file is read and Set is called with the first stat's time.
ReadFile(t) ==
    /\ th[t].pc = "ReadFile"
    /\ UNCHANGED <<fs, now, cache, mu, impl, hist, probe>>
    /\ LET r == [th[t] EXCEPT !.touched = @ \cup {th[t].full}]
       IN  Step(t, IF r.full \notin DOMAIN fs THEN Finish(r, ErrReadFile)
                   ELSE LET content == fs[r.full].content
                        IN  StartSet([r EXCEPT !.out = content], r.full, content,
                                     ExtractTags(content), r.statMtime, "Read"))

CallCreate(t, p, content) ==
    /\ th[t].pc = "idle"
    /\ UNCHANGED <<fs, now, cache, mu, impl, hist, probe>>
    /\ LET v == validatePath(p)
           r == [Idle EXCEPT !.op = "Create", !.arg = p, !.arg2 = content]
       IN  Step(t, IF v.err # NoError THEN Finish(r, v.err)
                   ELSE [r EXCEPT !.full = v.full, !.pc = "CreateStat"])

\* Create's existence test: a stat without error means the note already exists.
MutCreateExists(path) == FALSE

CreateExists(path) == path \in DOMAIN fs

\* A Create that opens the file for writing, emptying it, before it looks whether the
\* note exists.
MutCreateStat(t) ==
    /\ th[t].pc = "CreateStat"
    /\ UNCHANGED <<now, cache, mu, impl, hist, probe>>
    /\ fs' = IF th[t].full \in DOMAIN fs THEN WriteFile(th[t].full, "") ELSE fs
    /\ LET r == [th[t] EXCEPT !.touched = @ \cup {th[t].full}]
       IN  Step(t, IF CreateExists(r.full) THEN Finish(r, ErrAlreadyExists)
                   ELSE [r EXCEPT !.pc = "CreateWrite"])

\* Create, lines 337-339.
CreateStat(t) ==
    /\ th[t].pc = "CreateStat"
    /\ UNCHANGED <<fs, now, cache, mu, impl, hist, probe>>
    /\ LET r == [th[t] EXCEPT !.touched = @ \cup {th[t].full}]
       IN  Step(t, IF CreateExists(r.full) THEN Finish(r, ErrAlreadyExists)
                   ELSE [r EXCEPT !.pc = "CreateWrite"])

\* A Create whose write is exclusive: it fails when the file has appeared since the stat.
MutCreateWrite(t) ==
    /\ th[t].pc = "CreateWrite"
    /\ UNCHANGED <<now, cache, mu, impl, probe>>
    /\ fs' = IF th[t].full \in DOMAIN fs THEN fs ELSE WriteFile(th[t].full, th[t].arg2)
    /\ hist' = IF th[t].full \in DOMAIN fs THEN hist ELSE NoteWrite(th[t].full, th[t].arg2)
    /\ Step(t, IF th[t].full \in DOMAIN fs THEN Finish(th[t], ErrAlreadyExists)
               ELSE [th[t] EXCEPT !.touched = @ \cup {Dir(th[t].full), th[t].full},
                                  !.pc = "CreateRestat"])

\* Create, lines 342-350: the parent directories, then the file.
CreateWrite(t) ==
    /\ th[t].pc = "CreateWrite"
    /\ UNCHANGED <<now, cache, mu, impl, probe>>
    /\ fs' = WriteFile(th[t].full, th[t].arg2)
    /\ hist' = NoteWrite(th[t].full, th[t].arg2)
    /\ Step(t, [th[t] EXCEPT !.touched = @ \cup {Dir(th[t].full), th[t].full},
                             !.pc = "CreateRestat"])

\* A Create that fails when the stat after its write fails.
MutCreateRestat(t) ==
    /\ th[t].pc = "CreateRestat"
    /\ UNCHANGED <<fs, now, cache, mu, impl, hist, probe>>
    /\ LET r == [th[t] EXCEPT !.touched = @ \cup {th[t].full}]
       IN  Step(t, IF r.full \notin DOMAIN fs THEN Finish(r, ErrNoteNotFound)
                   ELSE StartSet(r, r.full, r.arg2, ExtractTags(r.arg2),
                                 fs[r.full].mtime, "Write"))

\* Create, lines 353-359: the stat after the write; the cache is set when it succeeds.
CreateRestat(t) ==
    /\ th[t].pc = "CreateRestat"
    /\ UNCHANGED <<fs, now, cache, mu, impl, hist, probe>>
    /\ LET r == [th[t] EXCEPT !.touched = @ \cup {th[t].full}]
       IN  Step(t, IF r.full \notin DOMAIN fs THEN Finish(r, NoError)
                   ELSE StartSet(r, r.full, r.arg2, ExtractTags(r.arg2),
                                 fs[r.full].mtime, "Write"))

CallUpdate(t, p, content) ==
    /\ th[t].pc = "idle"
    /\ UNCHANGED <<fs, now, cache, mu, impl, hist, probe>>
    /\ LET v == validatePath(p)
           r == [Idle EXCEPT !.op = "Update", !.arg = p, !.arg2 = content]
       IN  Step(t, IF v.err # NoError THEN Finish(r, v.err)
                   ELSE [r EXCEPT !.full = v.full, !.pc = "UpdateStat"])

\* Update's existence test: a stat error that is "not exist" means NoteNotFound.
MutUpdateMissing(path) == FALSE

UpdateMissing(path) == path \notin DOMAIN fs

\* Update, lines 370-375.
UpdateStat(t) ==
    /\ th[t].pc = "UpdateStat"
    /\ UNCHANGED <<fs, now, cache, mu, impl, hist, probe>>
    /\ LET r == [th[t] EXCEPT !.touched = @ \cup {th[t].full}]
       IN  Step(t, IF UpdateMissing(r.full) THEN Finish(r, ErrNoteNotFound)
                   ELSE [r EXCEPT !.pc = "UpdateWrite"])

\* Update, lines 378-380.
UpdateWrite(t) ==
    /\ th[t].pc = "UpdateWrite"
    /\ UNCHANGED <<now, cache, mu, impl, probe>>
    /\ fs' = WriteFile(th[t].full, th[t].arg2)
    /\ hist' = NoteWrite(th[t].full, th[t].arg2)
    /\ Step(t, [th[t] EXCEPT !.touched = @ \cup {th[t].full}, !.pc = "UpdateRestat"])

\* Update that returns after its write, without the stat and the Set.
MutUpdateRestat(t) ==
    /\ th[t].pc = "UpdateRestat"
    /\ UNCHANGED <<fs, now, cache, mu, impl, hist, probe>>
    /\ Step(t, Finish(th[t], NoError))

\* Update, lines 383-389.
UpdateRestat(t) ==
    /\ th[t].pc = "UpdateRestat"
    /\ UNCHANGED <<fs, now, cache, mu, impl, hist, probe>>
    /\ LET r == [th[t] EXCEPT !.touched = @ \cup {th[t].full}]
       IN  Step(t, IF r.full \notin DOMAIN fs THEN Finish(r, NoError)
                   ELSE StartSet(r, r.full, r.arg2, ExtractTags(r.arg2),
                                 fs[r.full].mtime, "Write"))

----------------------------------------------------------------------------
(* Vault: List and Search (vault.go), over filepath.Walk *)

\* Bytes in their order, for the lexical order in which Walk visits a directory.
ByteOrder == " #()-./0123456789ABCDEFGHIJKLMNOPQRSTUVWXYZ_abcdefghijklmnopqrstuvwxyz"

Rank(c) == CHOOSE i \in 1..Len(ByteOrder) : Ch(ByteOrder, i) = c

RECURSIVE StrLess(_, _)
StrLess(a, b) ==
    IF b = "" THEN FALSE
    ELSE IF a = "" THEN TRUE
    ELSE IF Ch(a, 1) = Ch(b, 1) THEN StrLess(SubSeq(a, 2, Len(a)), SubSeq(b, 2, Len(b)))
    ELSE Rank(Ch(a, 1)) < Rank(Ch(b, 1))

RECURSIVE Sorted(_)
Sorted(names) ==
    IF names = {} THEN <<>>
    ELSE LET least == CHOOSE n \in names : \A o \in names \ {n} : StrLess(n, o)
         IN  <<least>> \o Sorted(names \ {least})

\* A directory exists where the root is, and above every file.
IsDir(path) ==
    path = BasePath \/ \E f \in DOMAIN fs : HasPrefix(f, path \o Separator)

\* readDirNames: the sorted names of the entries of a directory.
ReadDirNames(dir) ==
    Sorted({Head(Split(SubSeq(f, Len(dir) + 2, Len(f)))) :
               f \in {g \in DOMAIN fs : HasPrefix(g, dir \o Separator)}})

RECURSIVE JoinAll(_, _)
JoinAll(dir, names) ==
    IF names = <<>> THEN <<>> ELSE <<Join(dir, Head(names))>> \o JoinAll(dir, Tail(names))

CallList(t, subpath, recursive) ==
    /\ th[t].pc = "idle"
    /\ UNCHANGED <<fs, now, cache, mu, impl, hist, probe>>
    /\ LET d == searchDir(subpath)
           r == [Idle EXCEPT !.op = "List", !.arg = subpath, !.recursive = recursive]
       IN  Step(t, IF d.err # NoError THEN Finish(r, d.err)
                   ELSE [r EXCEPT !.full = d.full, !.queue = <<d.full>>, !.pc = "Walk"])

CallSearch(t, query, subpath, tags) ==
    /\ th[t].pc = "idle"
    /\ UNCHANGED <<fs, now, cache, mu, impl, hist, probe>>
    /\ LET d == searchDir(subpath)
           r == [Idle EXCEPT !.op = "Search", !.arg = subpath, !.arg2 = query,
                             !.filter = {ToLower(g) : g \in tags}]
       IN  Step(t, IF d.err # NoError THEN Finish(r, d.err)
                   ELSE IF query # "" /\ ~Compiles(query) THEN Finish(r, ErrInvalidQuery)
                   ELSE [r EXCEPT !.full = d.full, !.queue = <<d.full>>, !.pc = "Walk"])

\* A walk that ends at a cancelled context with the notes it has, as if complete.
MutWalkCancelled(t) ==
    /\ th[t].pc = "Walk"
    /\ UNCHANGED <<fs, now, cache, mu, impl, hist, probe>>
    /\ Step(t, Finish([th[t] EXCEPT !.queue = <<>>, !.cancelled = TRUE], NoError))

\* The callback finds the context cancelled (the caller may cancel at any time; the
\* callback looks once, at its start): lines 123-127 and 220-224. Walk returns the
\* error and the call returns no notes.
WalkCancelled(t) ==
    /\ th[t].pc = "Walk"
    /\ UNCHANGED <<fs, now, cache, mu, impl, hist, probe>>
    /\ LET path == Head(th[t].queue)
       IN  Step(t, Finish([th[t] EXCEPT !.queue = <<>>, !.notes = <<>>, !.cancelled = TRUE,
                                        !.touched = @ \cup {path}], ErrCancelled))

\* List that prunes every directory when it is not recursive, the starting one too.
MutSkipDir(r, path) == r.op = "List" /\ ~r.recursive

\* List, lines 135-138: a directory other than the starting one is not descended
\* into when the call is not recursive. Search descends into every directory.
SkipDir(r, path) == r.op = "List" /\ ~r.recursive /\ path # r.full

\* A walk that fails the call when its lstat of an entry fails.
MutWalkMissing(t) ==
    /\ th[t].pc = "Walk"
    /\ ~th[t].cancelled
    /\ UNCHANGED <<fs, now, cache, mu, impl, hist, probe>>
    /\ LET path == Head(th[t].queue)
           r == [th[t] EXCEPT !.queue = Tail(@), !.touched = @ \cup {path}]
       IN  Step(t,
             IF path \in DOMAIN fs
             THEN IF ~HasSuffix(path, MdSuffix) THEN Continue(r)
                  ELSE StartGet([r EXCEPT !.statMtime = fs[path].mtime], path, "Walk")
             ELSE IF IsDir(path)
             THEN IF SkipDir(r, path) THEN Continue(r)
                  ELSE Continue([r EXCEPT !.queue = JoinAll(path, ReadDirNames(path)) \o @])
             ELSE Finish([r EXCEPT !.queue = <<>>, !.notes = <<>>], ErrReadFile))

\* Walk reaches its next entry: lstat (and readDirNames for a directory), then the
\* callback, whose context is not cancelled, up to its call of Get. List lines 121-155, Search lines 218-242.
Walk(t) ==
    /\ th[t].pc = "Walk"
    /\ ~th[t].cancelled
    /\ UNCHANGED <<fs, now, cache, mu, impl, hist, probe>>
    /\ LET path == Head(th[t].queue)
           r == [th[t] EXCEPT !.queue = Tail(@), !.touched = @ \cup {path}]
       IN  Step(t,
             IF path \in DOMAIN fs
             THEN IF ~HasSuffix(path, MdSuffix) THEN Continue(r)
                  ELSE StartGet([r EXCEPT !.statMtime = fs[path].mtime], path, "Walk")
             ELSE IF IsDir(path)
             THEN IF SkipDir(r, path) THEN Continue(r)
                  ELSE Continue([r EXCEPT !.queue = JoinAll(path, ReadDirNames(path)) \o @])
             ELSE Continue(r))

\* A walk that fails the call when a file cannot be read.
MutWalkRead(t) ==
    /\ th[t].pc = "WalkRead"
    /\ UNCHANGED <<fs, now, cache, mu, impl, hist, probe>>
    /\ LET r == [th[t] EXCEPT !.touched = @ \cup {th[t].key}]
       IN  Step(t, IF r.key \notin DOMAIN fs
                   THEN Finish([r EXCEPT !.queue = <<>>, !.notes = <<>>], ErrReadFile)
                   ELSE LET content == fs[r.key].content
                        IN  StartSet(r, r.key, content, ExtractTags(content),
                                     r.statMtime, "Walk"))

\* The callback after a cache miss: the file is read, a file that cannot be read is
\* skipped, and Set is called with the time of the walk's lstat. List lines 159-165,
\* Search lines 246-252.
WalkRead(t) ==
    /\ th[t].pc = "WalkRead"
    /\ UNCHANGED <<fs, now, cache, mu, impl, hist, probe>>
    /\ LET r == [th[t] EXCEPT !.touched = @ \cup {th[t].key}]
       IN  Step(t, IF r.key \notin DOMAIN fs THEN Continue(r)
                   ELSE LET content == fs[r.key].content
                        IN  StartSet(r, r.key, content, ExtractTags(content),
                                     r.statMtime, "Walk"))

----------------------------------------------------------------------------
(* The vault and its callers *)

NoteArgs == {"a.md", "d/a.md", "", "a.txt", "../va.md"}
Subpaths == {"", "d", "../va"}
\* Search's calls: with and without a query, a tag filter and a subpath, a query that
\* does not compile, a subpath that leaves the vault.
SearchCalls ==
    {[query |-> "", subpath |-> "", tags |-> {}],
     [query |-> "x", subpath |-> "", tags |-> {"A"}],
     [query |-> "x", subpath |-> "d", tags |-> {}],
     [query |-> "", subpath |-> "d", tags |-> {"A"}],
     [query |-> "(", subpath |-> "", tags |-> {}],
     [query |-> "", subpath |-> "../va", tags |-> {}]}

VaultSteps(t) ==
    \/ ReadStat(t) \/ ReadFile(t)
    \/ CreateStat(t) \/ CreateWrite(t) \/ CreateRestat(t)
    \/ UpdateStat(t) \/ UpdateWrite(t) \/ UpdateRestat(t)
    \/ Walk(t) \/ WalkCancelled(t) \/ WalkRead(t)

\* One caller at a time calls the vault; other processes write and remove the
\* vault's files, and the clock advances, between any two steps.
Client == "t1"

Next ==
    \/ \E p \in NoteArgs : CallRead(Client, p)
    \/ \E p \in NoteArgs, c \in Contents : CallCreate(Client, p, c)
    \/ \E p \in NoteArgs, c \in Contents : CallUpdate(Client, p, c)
    \/ \E d \in Subpaths, rec \in BOOLEAN : CallList(Client, d, rec)
    \/ \E a \in SearchCalls : CallSearch(Client, a.query, a.subpath, a.tags)
    \/ VaultSteps(Client)
    \/ CacheSteps(Client)
    \/ Return(Client)
    \/ Tick
    \/ \E p \in NotePaths, c \in Contents : ExtWrite(p, c)
    \/ \E p \in NotePaths : ExtDelete(p)

\* The vault is built with the cache of src/internal/vault/cache.go.
InitVault == Init /\ impl = ImplPlain

Spec == InitVault /\ [][Next]_vars

----------------------------------------------------------------------------
(* One call of the vault with any short path *)

PathAlphabet == {"a", "v", ".", "/"}

RECURSIVE Strings(_)
Strings(n) ==
    IF n = 0 THEN {""}
    ELSE LET shorter == Strings(n - 1)
         IN  shorter \cup {s \o c : s \in shorter, c \in PathAlphabet}

LongerPaths ==
    {".md", "a.md", "a.txt", "a.md/", "./a.md", "d/a.md", "a..a.md", "a.mda",
     "../a.md", "../va.md", "../../a.md", "a/../a.md", "d/../a.md", "a/../../a.md",
     "../a.txt", "d/..", "../va", "/va/a.md", "/v/a.md", "/v/d"}

PathInputs == Strings(MaxPathLen) \cup LongerPaths

\* The vault in use: both notes exist, /v/a.md was rewritten at time 1, and the
\* cache holds what earlier calls stored (for /v/a.md, before it was rewritten).
UsedCaches ==
    LET old == "/v/a.md" :> NewEntry("y", {}, 0)
        cur == "/v/d/a.md" :> NewEntry("x #A", {"a"}, 0)
    IN  {EmptyMap, old, cur, old @@ cur}

InitPath ==
    /\ fs = [p \in NotePaths |-> [content |-> "x #A", mtime |-> IF p = "/v/a.md" THEN 1 ELSE 0]]
    /\ now = 1
    /\ cache \in UsedCaches
    /\ mu = [w |-> NoThread, r |-> {}]
    /\ impl = ImplPlain
    /\ th = [t \in Threads |-> Idle]
    /\ hist = [lastSet |-> cache, written |-> EmptyMap, deleted |-> EmptyMap]
    /\ probe = NoProbe

\* The containment test of validatePath, List and Search, applied to an absolute path.
ProbeContained(path) ==
    /\ probe' = [fn |-> "Contained", in |-> path, contained |-> Contained(path)]
    /\ UNCHANGED <<fs, now, cache, mu, impl, th, hist>>

\* One call, or one application of the containment test.
NextPath ==
    \/ /\ probe.fn = "none"
       /\ th[Client].pc = "idle"
       /\ \/ \E p \in PathInputs : CallRead(Client, p)
          \/ \E p \in PathInputs : CallCreate(Client, p, "y")
          \/ \E p \in PathInputs : CallUpdate(Client, p, "y")
          \/ \E p \in PathInputs, rec \in BOOLEAN : CallList(Client, p, rec)
          \/ \E p \in PathInputs : CallSearch(Client, "", p, {})
          \/ \E p \in PathInputs : ProbeContained(p)
    \/ VaultSteps(Client)
    \/ CacheSteps(Client)

SpecPath == InitPath /\ [][NextPath]_vars

----------------------------------------------------------------------------
(* ExtractTags applied to any short content *)

TagAlphabet == {"#", "a", "A", "b", "_", "-"}

RECURSIVE ContentStrings(_)
ContentStrings(n) ==
    IF n = 0 THEN {""}
    ELSE LET shorter == ContentStrings(n - 1)
         IN  shorter \cup {s \o c : s \in shorter, c \in TagAlphabet}

\* The contents of TestExtractTags, shortened.
LongerContents ==
    {"#Tag #TAG #tag", "#tag-with-dash", "#tag_with_underscore", "x #a #b #a y",
     "no tags", "#a1 #1a #B_2", "##a# #", "#a.#b!"}

TagInputs == ContentStrings(MaxContentLen) \cup LongerContents

\* ExtractTags(content) is called and returns a slice.
ExtractCall(content) ==
    /\ probe.fn = "none"
    /\ \E r \in TagSlices(content) :
           probe' = [fn |-> "ExtractTags", in |-> content, contained |-> FALSE, calls |-> <<r>>]
    /\ UNCHANGED <<fs, now, cache, mu, impl, th, hist>>

\* ExtractTags is called once more with the same content.
ExtractAgain ==
    /\ probe.fn = "ExtractTags"
    /\ Len(probe.calls) = 1
    /\ \E r \in TagSlices(probe.in) : probe' = [probe EXCEPT !.calls = Append(@, r)]
    /\ UNCHANGED <<fs, now, cache, mu, impl, th, hist>>

NextExtract ==
    \/ \E content \in TagInputs : ExtractCall(content)
    \/ ExtractAgain

SpecExtract == InitVault /\ [][NextExtract]_vars

----------------------------------------------------------------------------
(* List and Search over a vault of notes, directories and other files *)

\* The files a vault may hold (as in setupTestVault: notes at several depths and a
\* file that is not a note), with their contents.
WalkFiles ==
    ("/v/a.md" :> "x #A") @@ ("/v/b.txt" :> "x #A")
        @@ ("/v/d/a.md" :> "X #b") @@ ("/v/d/e/c.md" :> "y #A #B")

WalkSubpaths == {"", "d", "d/e", "a.md", "n", "../va"}
WalkQueries == {"", "x", "("}
WalkTags == {{}, {"A"}, {"B", "c"}}

InitWalk ==
    /\ \E files \in SUBSET DOMAIN WalkFiles :
           fs = [f \in files |-> [content |-> WalkFiles[f], mtime |-> 0]]
    /\ now = 0
    /\ cache = EmptyMap
    /\ mu = [w |-> NoThread, r |-> {}]
    /\ impl = ImplPlain
    /\ th = [t \in Threads |-> Idle]
    /\ hist = [lastSet |-> EmptyMap, written |-> EmptyMap, deleted |-> EmptyMap]
    /\ probe = NoProbe

\* The caller cancels the context of its running List or Search.
Cancel(t) ==
    /\ th[t].op \in {"List", "Search"}
    /\ th[t].pc \notin {"idle", "done"}
    /\ ~th[t].cancelled
    /\ th' = [th EXCEPT ![t].cancelled = TRUE]
    /\ UNCHANGED <<fs, now, cache, mu, impl, hist, probe>>

\* One caller lists and searches a vault that nobody else changes. Every entry Get
\* finds is then of the file's time, and Get's purge (GetLock, GetPurge) has no step.
NextWalk ==
    \/ \E d \in WalkSubpaths, rec \in BOOLEAN : CallList(Client, d, rec)
    \/ \E q \in WalkQueries, d \in WalkSubpaths, g \in WalkTags : CallSearch(Client, q, d, g)
    \/ Walk(Client) \/ WalkCancelled(Client) \/ WalkRead(Client)
    \/ GetRLock(Client) \/ GetLookup(Client) \/ GetStat(Client)
    \/ SetLock(Client) \/ SetStore(Client)
    \/ Cancel(Client)
    \/ Return(Client)

SpecWalk == InitWalk /\ [][NextWalk]_vars

\* The same, with other processes removing files during the walk.
NextSkip ==
    \/ NextWalk
    \/ GetLock(Client) \/ GetPurge(Client)
    \/ \E p \in DOMAIN WalkFiles : ExtDelete(p)

SpecSkip == InitWalk /\ [][NextSkip]_vars

----------------------------------------------------------------------------
(* NewVault, and the calls on the vault it returns *)

\* The working directory of the process, against which a relative path is resolved.
Cwd == "/"

\* filepath.Abs: a rooted path cleaned, any other joined to the working directory.
Abs(path) ==
    IF path # "" /\ Ch(path, 1) = Separator THEN Clean(path) ELSE Join(Cwd, path)

ErrBaseStat == "base path validation failed"
ErrBaseNotDir == "base path is not a directory"

\* os.Stat(basePath) succeeds: a file or a directory is there.
StatExists(path) ==
    path # "" /\ LET p == Abs(path) IN p \in DOMAIN fs \/ p = Cwd \/ IsDir(p)

\* NewVault that takes whatever exists at the base path.
MutStatIsDir(path) == TRUE

\* stat.IsDir() of a path that exists.
StatIsDir(path) == Abs(path) \notin DOMAIN fs

\* NewVault, lines 49-70: the error, or the vault with its basePath.
NewVaultResult(basePath) ==
    IF ~StatExists(basePath) THEN [err |-> ErrBaseStat, basePath |-> ""]
    ELSE IF ~StatIsDir(basePath) THEN [err |-> ErrBaseNotDir, basePath |-> ""]
    ELSE [err |-> NoError, basePath |-> Abs(basePath)]

BaseArgs == {"/v", "v", "/v/", "./v/d/..", "/v/d", "/v/a.md", "v/b.txt", "/n", "n/v", "", "/"}

NewVault(basePath) ==
    /\ probe.fn = "none"
    /\ probe' = [fn |-> "NewVault", in |-> basePath, contained |-> FALSE,
                 vault |-> NewVaultResult(basePath)]
    /\ UNCHANGED <<fs, now, cache, mu, impl, th, hist>>

\* NewVault has returned the vault of the root BasePath, the one whose calls are modelled.
VaultMade ==
    probe.fn = "NewVault" /\ probe.vault.err = NoError /\ probe.vault.basePath = BasePath

\* NewVault is called once; the vault it returns is then read, written and listed.
NextNew ==
    \/ \E b \in BaseArgs : NewVault(b)
    \/ /\ VaultMade
       /\ \/ \E p \in {"a.md", "n.md"} : CallRead(Client, p)
          \/ \E p \in {"a.md", "n.md"} : CallCreate(Client, p, "y")
          \/ \E p \in {"a.md", "n.md"} : CallUpdate(Client, p, "y")
          \/ \E rec \in BOOLEAN : CallList(Client, "", rec)
          \/ CallSearch(Client, "x", "d", {})
    \/ ReadStat(Client) \/ ReadFile(Client)
    \/ CreateStat(Client) \/ CreateWrite(Client) \/ CreateRestat(Client)
    \/ UpdateStat(Client) \/ UpdateWrite(Client) \/ UpdateRestat(Client)
    \/ Walk(Client) \/ WalkCancelled(Client) \/ WalkRead(Client)
    \/ GetRLock(Client) \/ GetLookup(Client) \/ GetStat(Client)
    \/ SetLock(Client) \/ SetStore(Client)
    \/ Return(Client)

SpecNew == InitWalk /\ [][NextNew]_vars

----------------------------------------------------------------------------
(* Notes that change between the calls of List and Search *)

\* Between two calls, another process rewrites (or makes) a note; the file gets a
\* modification time that no file had before.
ExtRewrite(p, content) ==
    /\ th[Client].pc = "idle"
    /\ now < MaxRewriteTime
    /\ now' = now + 1
    /\ fs' = MapPut(fs, p, [content |-> content, mtime |-> now + 1])
    /\ hist' = [hist EXCEPT !.written = MapDel(@, p)]
    /\ UNCHANGED <<cache, mu, impl, th, probe>>

\* One caller updates, lists and searches; the notes change only between its calls.
NextTags ==
    \/ \E p \in {"a.md", "d/a.md"}, c \in Contents : CallUpdate(Client, p, c)
    \/ \E d \in {"", "d"}, rec \in BOOLEAN : CallList(Client, d, rec)
    \/ \E g \in {{}, {"A"}} : CallSearch(Client, "", "", g)
    \/ UpdateStat(Client) \/ UpdateWrite(Client) \/ UpdateRestat(Client)
    \/ Walk(Client) \/ WalkCancelled(Client) \/ WalkRead(Client)
    \/ CacheSteps(Client)
    \/ Return(Client)
    \/ \E p \in NotePaths, c \in Contents : ExtRewrite(p, c)

SpecTags == InitVault /\ [][NextTags]_vars

----------------------------------------------------------------------------
(* Two goroutines call the vault on one note *)

RacePath == "a.md"

\* What each goroutine writes, so that the file and the cache tell the writers apart.
ContentOf(t) == IF t = "t1" THEN "x #A" ELSE "y"

NextRace ==
    \/ \E t \in Threads : CallCreate(t, RacePath, ContentOf(t))
    \/ \E t \in Threads : CallUpdate(t, RacePath, ContentOf(t))
    \/ \E t \in Threads : CallRead(t, RacePath)
    \/ \E t \in Threads : CallList(t, "", FALSE)
    \/ \E t \in Threads : CallSearch(t, "x", "", {})
    \/ \E t \in Threads : ReadStat(t) \/ ReadFile(t)
    \/ \E t \in Threads : Walk(t) \/ WalkCancelled(t) \/ WalkRead(t)
    \/ \E t \in Threads : CreateStat(t) \/ CreateWrite(t) \/ CreateRestat(t)
    \/ \E t \in Threads : UpdateStat(t) \/ UpdateWrite(t) \/ UpdateRestat(t)
    \/ \E t \in Threads : CacheSteps(t)
    \/ \E t \in Threads : Return(t)
    \/ Tick

SpecRace == InitVault /\ [][NextRace]_vars

----------------------------------------------------------------------------
(* One caller, and a clock that has advanced at every write *)

\* No file has the clock's present time: a write now gives a time no file has had
\* (a removal advances the clock too, see ExtRemove).
ClockAhead == \A f \in DOMAIN fs : fs[f].mtime < now

\* Time passes between two calls.
Elapse ==
    /\ th[Client].pc = "idle"
    /\ now < MaxRewriteTime
    /\ now' = now + 1
    /\ UNCHANGED <<fs, cache, mu, impl, th, hist, probe>>

\* Between two calls, another process removes a note.
ExtRemove(p) ==
    /\ th[Client].pc = "idle"
    /\ p \in DOMAIN fs
    /\ now < MaxRewriteTime
    /\ now' = now + 1
    /\ fs' = MapDel(fs, p)
    /\ hist' = [hist EXCEPT !.written = MapDel(@, p)]
    /\ UNCHANGED <<cache, mu, impl, th, probe>>

SeqNotes == {"a.md", "d/a.md"}

\* Read, List, Search, Create and Update one after another, with rewrites and removals
\* by other processes in between; Create and Update are called when the clock is ahead
\* of every file.
NextSeq ==
    \/ \E p \in SeqNotes : CallRead(Client, p)
    \/ \E d \in {"", "d"}, rec \in BOOLEAN : CallList(Client, d, rec)
    \/ \E q \in {"", "x"}, g \in {{}, {"A"}} : CallSearch(Client, q, "", g)
    \/ ClockAhead /\ \E p \in SeqNotes, c \in Contents : CallCreate(Client, p, c)
    \/ ClockAhead /\ \E p \in SeqNotes, c \in Contents : CallUpdate(Client, p, c)
    \/ VaultSteps(Client)
    \/ CacheSteps(Client)
    \/ Return(Client)
    \/ Elapse
    \/ \E p \in NotePaths, c \in Contents : ExtRewrite(p, c)
    \/ \E p \in NotePaths : ExtRemove(p)

SpecSeq == InitVault /\ [][NextSeq]_vars

----------------------------------------------------------------------------
(* The cache and the vault's note operations over two paths *)

\* One caller uses the cache and the vault on two notes, whose files other processes
\* write and remove; the vault is built with either Cache.
NextKeys ==
    \/ \E k \in NotePaths : CallGet(Client, k)
    \/ \E k \in NotePaths, a \in SetArgs : CallSet(Client, k, a.content, a.tags, now)
    \/ \E k \in NotePaths : CallDelete(Client, k)
    \/ \E p \in SeqNotes : CallRead(Client, p)
    \/ \E p \in SeqNotes : CallCreate(Client, p, "y")
    \/ \E p \in SeqNotes : CallUpdate(Client, p, "x #A")
    \/ CacheSteps(Client) \/ RecheckSteps(Client)
    \/ DeleteLock(Client) \/ DeleteRemove(Client)
    \/ ReadStat(Client) \/ ReadFile(Client)
    \/ CreateStat(Client) \/ CreateWrite(Client) \/ CreateRestat(Client)
    \/ UpdateStat(Client) \/ UpdateWrite(Client) \/ UpdateRestat(Client)
    \/ Return(Client)
    \/ Tick
    \/ \E p \in NotePaths : ExtWrite(p, "y")
    \/ \E p \in NotePaths : ExtDelete(p)

SpecKeys == Init /\ [][NextKeys]_vars

----------------------------------------------------------------------------
(* The tags slices in the callers' hands *)

\* What a caller writes over the elements of a tags slice it passed to Set, and of one
\* it was handed by Get, List or Search. No Set is ever given these values.
SetMark == "set-caller"
GetMark == "get-caller"

\* Set stores, and Get returns, a copy of the tags slice (errors.go 124-126, 137-139);
\* cache.go stores the slice it is given (line 73) and returns the entry (line 65).
CopiesTags == impl = ImplChecked

\* The slice in the caller's hands and the entry's Tags are one array.
SharesTags(k, tags) == ~CopiesTags /\ k \in DOMAIN cache /\ cache[k].tags = tags

\* After Set or a Get hit has returned, the caller overwrites the elements of the
\* slice it passed or was handed.
MutateTags(t) ==
    /\ th[t].pc = "done"
    /\ th[t].op = "Set" \/ (th[t].op = "Get" /\ th[t].hit)
    /\ th[t].stags # {}
    /\ th[t].stags \cap {SetMark, GetMark} = {}
    /\ UNCHANGED <<fs, now, mu, impl, hist, probe>>
    /\ LET k == th[t].key
           tags == {IF th[t].op = "Set" THEN SetMark ELSE GetMark}
       IN  /\ cache' = IF SharesTags(k, th[t].stags) THEN [cache EXCEPT ![k].tags = tags]
                       ELSE cache
           /\ Step(t, [th[t] EXCEPT !.stags = tags])

\* After List or Search has returned, the caller overwrites the elements of the Tags
\* of one NoteInfo.
MutateNoteTags(t, i) ==
    /\ th[t].pc = "done"
    /\ th[t].op \in {"List", "Search"}
    /\ i \in 1..Len(th[t].notes)
    /\ th[t].notes[i].tags # {}
    /\ th[t].notes[i].tags \cap {SetMark, GetMark} = {}
    /\ UNCHANGED <<fs, now, mu, impl, hist, probe>>
    /\ LET k == Join(BasePath, th[t].notes[i].path)
           tags == {GetMark}
       IN  /\ cache' = IF SharesTags(k, th[t].notes[i].tags)
                       THEN [cache EXCEPT ![k].tags = tags]
                       ELSE cache
           /\ Step(t, [th[t] EXCEPT !.notes[i].tags = tags])

\* One caller of the cache and of List and Search, who overwrites the slices in its
\* hands; the vault is built with either Cache.
NextAlias ==
    \/ \E k \in CacheKeys, a \in SetArgs, m \in Times : CallSet(Client, k, a.content, a.tags, m)
    \/ \E k \in CacheKeys : CallGet(Client, k)
    \/ CallList(Client, "", TRUE)
    \/ CallSearch(Client, "", "", {})
    \/ CacheSteps(Client) \/ RecheckSteps(Client)
    \/ Walk(Client) \/ WalkCancelled(Client) \/ WalkRead(Client)
    \/ MutateTags(Client)
    \/ \E i \in 1..2 : MutateNoteTags(Client, i)
    \/ Return(Client)
    \/ Tick
    \/ \E k \in CacheKeys, c \in Contents : ExtWrite(k, c)

SpecAlias == Init /\ [][NextAlias]_vars

----------------------------------------------------------------------------
(* The cache's contract *)

GetReturned(t) == th[t].pc = "done" /\ th[t].op = "Get"

\* The stat of a returned Get succeeded.
StatOk(r) == r.fileMtime # ZeroTime

\* C1: a Get that has returned reports a hit exactly when its lookup found an entry and
\* its stat of the path succeeded with the entry's recorded modification time (and, in
\* the re-verifying source, the entry was still the current one); a hit carries the
\* content and the tags given to the most recent Set of the path; with no entry it
\* reports a miss.
C1_GetHitIffFresh ==
    \A t \in Threads :
        GetReturned(t) =>
            LET r == th[t]
            IN  /\ r.hit = (r.exists /\ StatOk(r) /\ r.fileMtime = r.entry.mtime /\ r.still)
                /\ (r.hit => /\ r.out = r.given.content
                             /\ r.stags = r.given.tags
                             /\ r.given.mtime = r.fileMtime)
                /\ (~r.exists => ~r.hit)

\* A Get has returned a hit with the content and tags of an earlier Set.
C1_Witness ==
    \E t \in Threads :
        /\ GetReturned(t) /\ th[t].hit
        /\ th[t].out = "x #A" /\ th[t].stags = {"a"}

\* C2: a Get whose lookup found an entry, and whose stat found the file gone or with
\* another modification time, reports a miss, and unless a Set stored under the path
\* after the lookup the map holds no entry for the path once the Get has returned.
C2_StaleEntryPurged ==
    \A t \in Threads :
        (GetReturned(t) /\ th[t].exists
            /\ (~StatOk(th[t]) \/ th[t].fileMtime # th[t].entry.mtime))
        => /\ ~th[t].hit
           /\ (~th[t].sawSet => th[t].key \notin DOMAIN cache)

\* A Get has found the file rewritten with a new modification time and purged the entry.
C2_Witness ==
    \E t \in Threads :
        /\ GetReturned(t) /\ th[t].exists /\ StatOk(th[t])
        /\ th[t].fileMtime # th[t].entry.mtime
        /\ th[t].purged /\ th[t].key \notin DOMAIN cache

\* C3: the entry a Get deletes has the modification time the Get read at its lookup,
\* in every interleaving of Get, Set and Delete.
C3_PurgeOnlySameEntry ==
    \A t \in Threads : th[t].purged => th[t].purgedMtime = th[t].entry.mtime

\* A Get decided to invalidate, a Set replaced the entry by one with another
\* modification time before the purge, and the new entry is still in the map.
C3_Witness ==
    \E t \in Threads :
        /\ GetReturned(t) /\ th[t].exists /\ ~th[t].hit /\ th[t].still
        /\ (~StatOk(th[t]) \/ th[t].fileMtime # th[t].entry.mtime)
        /\ th[t].sawSet /\ ~th[t].purged
        /\ th[t].key \in DOMAIN cache
        /\ cache[th[t].key].mtime # th[t].entry.mtime

----------------------------------------------------------------------------
(* The path guard's contract *)

NoteOps == {"Read", "Create", "Update"}
WalkOps == {"List", "Search"}

\* The elements of the cleaned path, for a comparison element by element.
Elements(path) == Split(Clean(path))

InsideRoot(path) ==
    LET segs == Elements(path)
        root == Elements(BasePath)
    IN  Len(segs) >= Len(root) /\ SubSeq(segs, 1, Len(root)) = root

StrictlyInsideRoot(path) == InsideRoot(path) /\ Len(Elements(path)) > Len(Elements(BasePath))

HasParentSegment(path) ==
    LET segs == Elements(path) IN \E i \in 1..Len(segs) : segs[i] = DotDot

\* C4: every path validatePath accepts lies strictly inside the vault root and ends
\* in ".md", and no Read, Create, Update, List or Search has passed to the filesystem
\* (stat, read, write, mkdir, walk) a path outside the root, nor made a file there.
C4_Containment ==
    /\ \A t \in Threads :
        /\ (th[t].op \in NoteOps /\ th[t].full # "")
               => (StrictlyInsideRoot(th[t].full) /\ HasSuffix(th[t].full, MdSuffix))
        /\ (th[t].op \in NoteOps /\ th[t].pc # "idle" /\ validatePath(th[t].arg).err = NoError)
               => th[t].full = validatePath(th[t].arg).full
        /\ \A p \in th[t].touched : InsideRoot(p)
    /\ \A p \in DOMAIN fs : StrictlyInsideRoot(p)

\* A Create of a path that looks absolute has made its directory and its file in the vault.
C4_Witness ==
    /\ th[Client].op = "Create" /\ th[Client].pc = "done" /\ th[Client].err = NoError
    /\ th[Client].arg = "/v/a.md"
    /\ th[Client].touched = {"/v/v", "/v/v/a.md"}
    /\ "/v/v/a.md" \in DOMAIN fs

\* C5: a call of Read, Create, Update, List or Search whose path, once cleaned, has a
\* ".." element returns ErrPathTraversal without any access to the filesystem.
C5_TraversalRejected ==
    \A t \in Threads :
        (th[t].op \in NoteOps \cup WalkOps /\ HasParentSegment(th[t].arg))
            => /\ th[t].pc = "done"
               /\ th[t].err = ErrPathTraversal
               /\ th[t].touched = {}
               /\ ~th[t].modified

\* A List of a sibling of the root, reached through "..", was refused.
C5_Witness ==
    /\ th[Client].op = "List" /\ th[Client].arg = "../va"
    /\ th[Client].pc = "done" /\ th[Client].err = ErrPathTraversal

----------------------------------------------------------------------------
(* The contract of Create, Update and Read *)

\* C8: the step of Create that tests for the file ends the call with "note already
\* exists" whenever a file is at the path, and goes on to the write otherwise; a call
\* ended so has changed neither the files nor the cache.
C8_CreateRefusesExisting ==
    [][\A t \in Threads :
          (th[t].pc = "CreateStat" /\ th'[t].pc # "CreateStat") =>
              IF th[t].full \in DOMAIN fs
              THEN /\ th'[t].pc = "done" /\ th'[t].err = ErrAlreadyExists
                   /\ ~th'[t].modified
                   /\ fs' = fs /\ cache' = cache
              ELSE th'[t].pc = "CreateWrite"]_vars

\* Create(p, "x #A") made the note; a second Create(p, "y") has failed and the note
\* still holds "x #A".
C8_Witness ==
    /\ th[Client].op = "Create" /\ th[Client].pc = "done"
    /\ th[Client].err = ErrAlreadyExists /\ th[Client].arg2 = "y"
    /\ th[Client].full \in DOMAIN hist.written
    /\ hist.written[th[Client].full] = "x #A"
    /\ fs[th[Client].full].content = "x #A"

\* C9: the step of Update that tests for the file ends the call with ErrNoteNotFound
\* whenever no file is at the path, and goes on to the write otherwise; a call ended
\* so has made no file and has not changed the cache.
C9_UpdateRefusesMissing ==
    [][\A t \in Threads :
          (th[t].pc = "UpdateStat" /\ th'[t].pc # "UpdateStat") =>
              IF th[t].full \notin DOMAIN fs
              THEN /\ th'[t].pc = "done" /\ th'[t].err = ErrNoteNotFound
                   /\ ~th'[t].modified
                   /\ fs' = fs /\ cache' = cache
              ELSE th'[t].pc = "UpdateWrite"]_vars

\* An Update of a note that is not there has failed, and the note is still not there.
C9_Witness ==
    /\ th[Client].op = "Update" /\ th[Client].pc = "done"
    /\ th[Client].err = ErrNoteNotFound
    /\ th[Client].full = "/v/d/a.md"
    /\ th[Client].full \notin DOMAIN fs
    /\ ~th[Client].modified

\* C10: a Read that succeeds on a path whose last write was a Create or an Update of
\* the vault, with no write or removal by anyone since, returns the content that was
\* written, whatever calls came before the write and whatever the cache held.
C10_ReadReturnsWritten ==
    \A t \in Threads :
        (th[t].op = "Read" /\ th[t].pc = "done" /\ th[t].err = NoError
            /\ th[t].full \in DOMAIN hist.written)
        => th[t].out = hist.written[th[t].full]

\* A Read served from the cache has returned what Update wrote over an older note.
C10_Witness ==
    /\ th[Client].op = "Read" /\ th[Client].pc = "done" /\ th[Client].err = NoError
    /\ th[Client].hit
    /\ th[Client].full \in DOMAIN hist.written
    /\ th[Client].out = "y"
    /\ hist.written[th[Client].full] = "y"


\* C11: Read's stat of a path with no file ends the call with ErrNoteNotFound, whatever
\* the cache holds for the path; a Read returns an entry's content only when the file's
\* modification time, read in that step, is the entry's; otherwise it returns the
\* content it then reads from the file.
C11_ReadServesValidOnly ==
    [][\A t \in Threads :
          (th[t].op = "Read" /\ th'[t].op = "Read") =>
              /\ (th[t].pc = "ReadStat" /\ th'[t].pc # "ReadStat") =>
                     IF th[t].full \notin DOMAIN fs
                     THEN /\ th'[t].pc = "done" /\ th'[t].err = ErrNoteNotFound
                          /\ fs' = fs /\ cache' = cache
                     ELSE th'[t].pc = "GetRLock"
              /\ (th[t].pc # "done" /\ th'[t].pc = "done" /\ th'[t].err = NoError /\ th'[t].hit)
                     => /\ th[t].full \in DOMAIN fs
                        /\ fs[th[t].full].mtime = th'[t].entry.mtime
                        /\ th[t].full \in DOMAIN cache
                        /\ th'[t].out = cache[th[t].full].content
              /\ (th[t].pc = "ReadFile" /\ th'[t].pc = "SetLock")
                     => th'[t].out = fs[th[t].full].content
              /\ (th[t].pc \in {"SetLock", "SetStore"}) => th'[t].out = th[t].out]_vars

\* The cache held the note, the note was rewritten outside the vault with a new
\* modification time, and Read has returned the file's content, not the entry's.
C11_Witness ==
    LET r == th[Client]
    IN  /\ r.op = "Read" /\ r.pc = "done" /\ r.err = NoError
        /\ r.exists /\ ~r.hit
        /\ r.fileMtime # r.entry.mtime
        /\ r.entry.content = "x #A" /\ r.out = "y"
        /\ r.full \in DOMAIN fs /\ fs[r.full].content = "y"

\* C12: an operation that has found no file at a cached key, or a file whose
\* modification time is not the entry's, has returned a miss and left the cache with
\* no entry of that recorded time under the key.
C12_ObserverPurges ==
    \A t \in Threads :
        th[t].pc = "done" =>
            LET r == th[t]
            IN  /\ (r.op \in {"Read", "Update"} /\ r.err = ErrNoteNotFound)
                       => r.full \notin DOMAIN cache
                /\ (r.op \in {"Get", "Read"} /\ r.exists
                        /\ (~StatOk(r) \/ r.fileMtime # r.entry.mtime))
                       => /\ ~r.hit
                          /\ (r.key \notin DOMAIN cache \/ cache[r.key].mtime # r.entry.mtime)

----------------------------------------------------------------------------
(* The cache's ownership of its entries *)

\* C13: no Get returns a tag that a caller wrote into the slice it had passed to Set
\* after that Set returned.
C13_SetCopiesTags ==
    \A t \in Threads : (GetReturned(t) /\ th[t].hit) => SetMark \notin th[t].stags

\* C14: no Get returns, and no List or Search reports, a tag that a caller wrote into
\* a slice it was handed by an earlier Get hit, List or Search.
C14_GetCopiesTags ==
    [][\A t \in Threads :
          (th[t].pc # "done" /\ th'[t].pc = "done") =>
              /\ (th'[t].op = "Get" /\ th'[t].hit) => GetMark \notin th'[t].stags
              /\ th'[t].op \in {"List", "Search"} =>
                     \A i \in 1..Len(th'[t].notes) : GetMark \notin th'[t].notes[i].tags]_vars

----------------------------------------------------------------------------
(* The contract of List and Search *)

\* The paths of the notes a call has returned, as paths of the filesystem.
Returned(r) == {Join(BasePath, r.notes[i].path) : i \in 1..Len(r.notes)}

\* Each note is returned once, under a path relative to the root.
WellFormed(r) ==
    /\ Cardinality(Returned(r)) = Len(r.notes)
    /\ \A i \in 1..Len(r.notes) :
           /\ ~HasPrefix(r.notes[i].path, Separator)
           /\ ~HasParentSegment(r.notes[i].path)

Below(f, dir) == HasPrefix(f, dir \o Separator)

\* The notes of the starting directory: directly in it, or anywhere below it.
ListExpected(start, recursive) ==
    {f \in DOMAIN fs : /\ HasSuffix(f, MdSuffix)
                       /\ Below(f, start)
                       /\ (recursive \/ Dir(f) = start)}

SearchExpected(start, query, filter) ==
    {f \in DOMAIN fs :
        /\ HasSuffix(f, MdSuffix)
        /\ Below(f, start)
        /\ (query # "" => Contains(ToLower(fs[f].content), ToLower(query)))
        /\ (filter # {} => \E tag \in ExtractTags(fs[f].content) : tag \in filter)}

\* C16: in a vault at rest, a Search that succeeds returns exactly the files ending in
\* ".md" at any depth below the starting directory whose content matches the query
\* without regard to case when the query is not empty, and that carry at least one tag
\* of the filter, compared in lower case, when the filter is not empty.
C16_SearchExact ==
    \A t \in Threads :
        (th[t].op = "Search" /\ th[t].pc = "done" /\ th[t].err = NoError) =>
            LET r == th[t]
            IN  /\ WellFormed(r)
                /\ r.full \notin DOMAIN fs =>
                       Returned(r) = SearchExpected(r.full, r.arg2, r.filter)
                /\ r.full \in DOMAIN fs => Returned(r) \subseteq {r.full}

\* Of three notes, two match the query "x" (one as "X") and two carry the tag of the
\* filter {"A"}; Search has returned the one note that does both.
C16_Witness ==
    /\ DOMAIN fs = DOMAIN WalkFiles
    /\ th[Client].op = "Search" /\ th[Client].pc = "done" /\ th[Client].err = NoError
    /\ th[Client].arg = "" /\ th[Client].arg2 = "x" /\ th[Client].filter = {"a"}
    /\ Returned(th[Client]) = {"/v/a.md"}

\* C17: the context is looked at when the walk reaches an entry, and only then: a
\* walk that reaches an entry with its context cancelled ends there with the context's
\* error and no notes, reading nothing more; a callback under way is not interrupted;
\* a walk cancelled before its first entry has read no file and changed no cache entry.
C17_CancelAborts ==
    [][\A t \in Threads :
          th[t].op \in WalkOps =>
              /\ (th[t].pc = "Walk" /\ th[t].cancelled /\ th'[t] # th[t])
                     => /\ th'[t].pc = "done" /\ th'[t].err = ErrCancelled
                        /\ th'[t].notes = <<>>
                        /\ fs' = fs /\ cache' = cache
              /\ (th[t].pc = "Walk" /\ th[t].cancelled /\ th[t].touched = {} /\ th'[t] # th[t])
                     => /\ th'[t].touched = {th[t].full}
                        /\ ~th'[t].modified
              /\ (th[t].pc \notin {"Walk", "idle"} /\ th'[t].pc # "idle")
                     => th'[t].err # ErrCancelled]_vars

\* A List was cancelled after it had read notes into the cache; it has returned the
\* context's error and no notes.
C17_Witness ==
    /\ th[Client].op = "List" /\ th[Client].pc = "done"
    /\ th[Client].err = ErrCancelled /\ th[Client].cancelled
    /\ th[Client].modified
    /\ Cardinality(th[Client].touched) > 2
    /\ th[Client].notes = <<>>

\* C18: while other processes remove files, a List or Search that has begun its walk
\* ends with no error but the context's; a walk that succeeds returns every matching
\* note that is still there, and nothing that does not match.
C18_UnreadableSkipped ==
    \A t \in Threads :
        (th[t].op \in WalkOps /\ th[t].pc = "done" /\ th[t].touched # {}) =>
            LET r == th[t]
                matching == IF r.op = "List" THEN ListExpected(r.full, r.recursive)
                            ELSE SearchExpected(r.full, r.arg2, r.filter)
            IN  /\ r.err \in {NoError, ErrCancelled}
                /\ r.err = NoError =>
                       /\ WellFormed(r)
                       /\ matching \subseteq Returned(r)
                       /\ \A f \in Returned(r) :
                              /\ f \in DOMAIN WalkFiles /\ HasSuffix(f, MdSuffix)
                              /\ f = r.full \/ Below(f, r.full)
                              /\ (r.op = "List" /\ ~r.recursive /\ f # r.full) => Dir(f) = r.full
                              /\ (r.op = "Search" /\ r.arg2 # "")
                                     => Contains(ToLower(WalkFiles[f]), ToLower(r.arg2))

\* A recursive List reached /v/d/a.md, which was removed before it could be read; the
\* call has succeeded with the two other notes.
C18_Witness ==
    /\ th[Client].op = "List" /\ th[Client].pc = "done" /\ th[Client].err = NoError
    /\ th[Client].arg = "" /\ th[Client].recursive
    /\ "/v/d/a.md" \in th[Client].touched
    /\ "/v/d/a.md" \notin DOMAIN fs
    /\ Returned(th[Client]) = {"/v/a.md", "/v/d/e/c.md"}

\* A query that is not a regular expression.
BadQuery == "("

\* C19 as stated: a Search with a query that does not compile fails with the
\* invalid-query error before any file is visited and without a change of the cache.
C19_InvalidQueryFails ==
    \A t \in Threads :
        (th[t].op = "Search" /\ th[t].arg2 = BadQuery)
            => /\ th[t].pc = "done" /\ th[t].err = ErrInvalidQuery
               /\ th[t].touched = {} /\ ~th[t].modified

\* C19: a Search with a query that does not compile fails before any file is visited
\* and without a change of the cache: with ErrPathTraversal when its cleaned subpath
\* has ".." in it, which is tested first, and with the invalid-query error otherwise.
C19_InvalidQueryAfterSubpath ==
    \A t \in Threads :
        (th[t].op = "Search" /\ th[t].arg2 = BadQuery)
            => /\ th[t].pc = "done"
               /\ th[t].err = IF th[t].arg # "" /\ Contains(Clean(th[t].arg), DotDot)
                              THEN ErrPathTraversal ELSE ErrInvalidQuery
               /\ th[t].touched = {} /\ ~th[t].modified
               /\ th[t].notes = <<>>

\* On a vault with notes and a warm cache, a Search below "d" with the query "(" has
\* failed with the invalid-query error.
C19_Witness ==
    /\ DOMAIN fs = DOMAIN WalkFiles /\ "/v/d/a.md" \in DOMAIN cache
    /\ th[Client].op = "Search" /\ th[Client].arg2 = BadQuery /\ th[Client].arg = "d"
    /\ th[Client].pc = "done" /\ th[Client].err = ErrInvalidQuery

\* C20: when the notes change only between calls (by Update, or by a rewrite that
\* gives the file a new modification time), every note a List or Search returns
\* carries the tags of the content the file has at the call.
C20_TagsOfCurrentContent ==
    \A t \in Threads :
        (th[t].op \in WalkOps /\ th[t].pc = "done" /\ th[t].err = NoError) =>
            \A i \in 1..Len(th[t].notes) :
                LET f == Join(BasePath, th[t].notes[i].path)
                IN  /\ f \in DOMAIN fs
                    /\ th[t].notes[i].tags = ExtractTags(fs[f].content)

\* /v/a.md was rewritten a second time, now without its tag, and the cache was
\* refreshed by the List that has returned it with no tags.
C20_Witness ==
    /\ th[Client].op = "List" /\ th[Client].pc = "done" /\ th[Client].err = NoError
    /\ th[Client].modified
    /\ "/v/a.md" \in DOMAIN fs /\ fs["/v/a.md"] = [content |-> "y", mtime |-> 2]
    /\ \E i \in 1..Len(th[Client].notes) :
           th[Client].notes[i] = [path |-> "a.md", tags |-> {}]

\* A word character in the specification's words: a letter, a digit or the underscore.
WordChar(c) == InChars(c, UpperChars \o LowerChars \o DigitChars \o "_")

\* s[i..j] is a run of word characters that cannot be extended to the right.
MaximalRun(s, i, j) ==
    /\ i <= j /\ j <= Len(s)
    /\ \A k \in i..j : WordChar(Ch(s, k))
    /\ (j = Len(s) \/ ~WordChar(Ch(s, j + 1)))

\* The tokens of a content: after each '#', the maximal run of word characters.
Tokens(s) ==
    {SubSeq(s, i + 1, j) : <<i, j>> \in
        {ij \in (1..Len(s)) \X (1..Len(s)) : Ch(s, ij[1]) = "#" /\ MaximalRun(s, ij[1] + 1, ij[2])}}

Elems(r) == {r.elems[i] : i \in 1..Len(r.elems)}

ExtractCalled == probe.fn = "ExtractTags"

\* C21: the slice ExtractTags returns has no element twice, its elements are exactly
\* the lowercase forms of the tokens of the content, and a second call with the same
\* content returns the same set.
C21_ExtractTagsExact ==
    ExtractCalled =>
        /\ \A c \in 1..Len(probe.calls) :
              LET r == probe.calls[c]
              IN  /\ \A i, j \in 1..Len(r.elems) : r.elems[i] = r.elems[j] => i = j
                  /\ Elems(r) = {ToLower(tok) : tok \in Tokens(probe.in)}
        /\ \A c, d \in 1..Len(probe.calls) : Elems(probe.calls[c]) = Elems(probe.calls[d])

\* #Tag, #TAG and #tag have collapsed to the one entry "tag", in both of two calls.
C21_Witness ==
    /\ ExtractCalled /\ probe.in = "#Tag #TAG #tag"
    /\ Len(probe.calls) = 2
    /\ probe.calls[1].elems = <<"tag">> /\ probe.calls[2].elems = <<"tag">>

\* C22: no element of the result holds a character that is not a word character; the
\* token after a '#' ends before the first dash or other punctuation; and a content
\* without a tag, the empty one too, gives an empty slice that is not nil.
C22_TokenIsMaximalRun ==
    ExtractCalled =>
        \A c \in 1..Len(probe.calls) :
            LET r == probe.calls[c]
                s == probe.in
            IN  /\ ~r.null
                /\ \A e \in Elems(r) : e # "" /\ \A k \in 1..Len(e) : WordChar(Ch(e, k))
                /\ \A i \in 1..Len(s), j \in 1..Len(s) :
                      (Ch(s, i) = "#" /\ MaximalRun(s, i + 1, j))
                          => ToLower(SubSeq(s, i + 1, j)) \in Elems(r)
                /\ (~\E i \in 1..(Len(s) - 1) : Ch(s, i) = "#" /\ WordChar(Ch(s, i + 1)))
                      => r.elems = <<>>
                /\ (s = "#tag-with-dash" => Elems(r) = {"tag"})
                /\ (s = "#tag_with_underscore" => Elems(r) = {"tag_with_underscore"})

\* "#tag-with-dash" has given the one tag "tag".
C22_Witness ==
    /\ ExtractCalled /\ probe.in = "#tag-with-dash"
    /\ probe.calls[1] = [null |-> FALSE, elems |-> <<"tag">>]

\* C23: while a Delete of a path has removed an entry and no Set of the path has
\* stored since, the map holds no entry for the path, and a Get whose lookup falls in
\* that time reports a miss, whatever the file's modification time is.
C23_DeleteUnconditional ==
    /\ \A k \in DOMAIN hist.deleted : k \notin DOMAIN cache
    /\ \A t \in Threads :
          (GetReturned(t) /\ th[t].gone # ZeroEntry) => (~th[t].exists /\ ~th[t].hit)

\* A Get has missed after a Delete removed the entry, the file being there with the
\* modification time the entry had recorded.
C23_Witness ==
    \E t \in Threads :
        /\ GetReturned(t) /\ ~th[t].hit
        /\ th[t].gone # ZeroEntry
        /\ th[t].key \in DOMAIN fs /\ fs[th[t].key].mtime = th[t].gone.mtime

\* What is at a path, whichever way the path is written.
IsDirectory(path) ==
    path # "" /\ LET p == Abs(path)
                 IN  p \notin DOMAIN fs /\ (p = Cwd \/ p = BasePath
                                             \/ \E f \in DOMAIN fs : HasPrefix(f, p \o Separator))

\* C24: NewVault returns an error and no vault exactly when its argument is not an
\* existing directory; the root of a vault it returns begins at the filesystem's root
\* and is clean, and no later step of any call changes it.
C24_NewVaultChecksRoot ==
    [][/\ (probe.fn = "none" /\ probe'.fn = "NewVault") =>
              LET v == probe'.vault
              IN  /\ (v.err = NoError) = IsDirectory(probe'.in)
                  /\ (v.err # NoError) => v.basePath = ""
                  /\ (v.err = NoError) => /\ Ch(v.basePath, 1) = Separator
                                          /\ Clean(v.basePath) = v.basePath
       /\ (probe.fn = "NewVault") => probe' = probe]_vars

\* The vault made from the relative path "v" has the root "/v", and still has it after
\* a Create on it has written a file.
C24_Witness ==
    /\ probe.fn = "NewVault" /\ probe.in = "v"
    /\ probe.vault = [err |-> NoError, basePath |-> "/v"]
    /\ th[Client].op = "Create" /\ th[Client].pc = "done" /\ th[Client].err = NoError
    /\ "/v/n.md" \in DOMAIN fs

\* C25: a Create that has passed its existence check writes its content over whatever
\* file is there by then, and returns success; so two concurrent Creates of one path
\* can both succeed, the later write replacing the earlier.
C25_CreateNotExclusive ==
    [][\A t \in Threads :
          /\ (th[t].pc = "CreateWrite" /\ th'[t].pc # "CreateWrite")
                => /\ th'[t].pc = "CreateRestat"
                   /\ th[t].full \in DOMAIN fs'
                   /\ fs'[th[t].full].content = th[t].arg2
          /\ (th[t].op = "Create" /\ th[t].pc \in {"CreateRestat", "SetLock", "SetStore"}
                /\ th'[t].pc = "done")
                => th'[t].err = NoError]_vars

\* Both goroutines' Creates of the one path have returned success; the file holds
\* what the second wrote over the first's content.
C25_Witness ==
    /\ \A t \in Threads : th[t].op = "Create" /\ th[t].pc = "done" /\ th[t].err = NoError
                          /\ th[t].full = "/v/a.md"
    /\ fs["/v/a.md"].content = ContentOf("t2")

\* The errors with which a call refuses its arguments or the state of the note.
RefusalErrors ==
    {ErrInvalidPath, ErrPathTraversal, ErrNotMarkdown, ErrNoteNotFound, ErrAlreadyExists,
     ErrInvalidQuery}

\* C26: a Read, Create, Update, List or Search that has returned one of the refusal
\* errors has changed neither the cache map nor any file in any of its steps.
C26_FailedCallChangesNothing ==
    \A t \in Threads :
        (th[t].op \in NoteOps \cup WalkOps /\ th[t].pc = "done" /\ th[t].err \in RefusalErrors)
            => ~th[t].modified

\* An Update of a note that is not there has returned NoteNotFound while the cache
\* holds entries and the vault holds files.
C26_Witness ==
    /\ th[Client].op = "Update" /\ th[Client].pc = "done" /\ th[Client].err = ErrNoteNotFound
    /\ ~th[Client].modified
    /\ DOMAIN cache # {} /\ DOMAIN fs # {}

\* No goroutine is inside a call.
Quiescent == \A t \in Threads : th[t].pc \in {"idle", "done"}

\* C27: once all calls have returned, the cache holds no entry whose modification
\* time is the file's while its content is not the file's (a Read would return it).
C27_CoherentAfterWriters ==
    Quiescent =>
        \A k \in DOMAIN cache :
            (k \in DOMAIN fs /\ cache[k].mtime = fs[k].mtime) => cache[k].content = fs[k].content

\* The positions at which a goroutine is about to stat, read or write a file.
FileSteps ==
    {"GetStat", "ReadStat", "ReadFile", "CreateStat", "CreateWrite", "CreateRestat",
     "UpdateStat", "UpdateWrite", "UpdateRestat", "Walk", "WalkRead"}

Holds(t) == mu.w = t \/ t \in mu.r

\* C28: a goroutine at a stat, a read or a write of a file holds the cache's lock in
\* neither mode; the lock is held only across a map lookup, store or removal.
C28_NoLockAcrossFileIO ==
    \A t \in Threads :
        /\ th[t].pc \in FileSteps => ~Holds(t)
        /\ Holds(t) => th[t].pc \in {"GetLookup", "GetRecheck", "GetPurge", "SetStore",
                                      "DeleteRemove"}

\* While one goroutine is at the stat inside Get, the other has taken the exclusive
\* lock for its Set.
C28_Witness ==
    /\ th["t1"].pc = "GetStat" /\ ~Holds("t1")
    /\ th["t2"].pc = "SetStore" /\ mu.w = "t2"

\* C29: a Get returns a hit only if, at the end of its stat, the map still holds for
\* the path an entry with the modification time the Get read at its lookup.
C29_GetReverifies ==
    [][\A t \in Threads :
          (th[t].op = "Get" /\ th[t].pc \in {"GetStat", "GetRecheck"}
              /\ th'[t].pc = "done" /\ th'[t].hit)
            => /\ th[t].key \in DOMAIN cache
               /\ cache[th[t].key].mtime = th[t].entry.mtime]_vars

InCall(t) == th[t].pc \notin {"idle", "done"}

\* C30: a goroutine outside a call of Get, Set or Delete holds no lock, a goroutine
\* waiting for the lock holds none, and under fair scheduling every call returns.
C30_CacheCallsReturn ==
    /\ [](\A t \in Threads :
              /\ ~InCall(t) => ~Holds(t)
              /\ th[t].pc \in {"GetRLock", "GetRLock2", "GetLock", "SetLock", "DeleteLock"}
                    => ~Holds(t))
    /\ \A t \in Threads : InCall(t) ~> (th[t].pc = "done")

\* One goroutine waits for the exclusive lock for its Set while the other holds it
\* inside Delete.
C30_Witness ==
    /\ th["t1"].pc = "SetLock"
    /\ th["t2"].pc = "DeleteRemove" /\ mu.w = "t2"

\* A vault with no cache: Read stats and reads the file.
PlainRead(full) ==
    IF full \notin DOMAIN fs THEN [err |-> ErrNoteNotFound, out |-> ""]
    ELSE [err |-> NoError, out |-> fs[full].content]

\* A vault with no cache: whether the walk of call r reports a note of this content.
PlainIncluded(r, content) ==
    \/ r.op = "List"
    \/ /\ r.op = "Search"
       /\ (r.arg2 = "" \/ MatchString(r.arg2, content))
       /\ (r.filter = {} \/ ExtractTags(content) \cap r.filter # {})

\* A vault with no cache: the walk of call r over the entries of queue, every note
\* read from its file.
RECURSIVE PlainWalk(_, _, _)
PlainWalk(queue, r, notes) ==
    IF queue = <<>> THEN notes
    ELSE LET path == Head(queue)
             rest == Tail(queue)
         IN  IF path \in DOMAIN fs
             THEN IF HasSuffix(path, MdSuffix) /\ PlainIncluded(r, fs[path].content)
                  THEN PlainWalk(rest, r, Append(notes,
                           [path |-> Rel(path), tags |-> ExtractTags(fs[path].content)]))
                  ELSE PlainWalk(rest, r, notes)
             ELSE IF IsDir(path) /\ ~(r.op = "List" /\ ~r.recursive /\ path # r.full)
             THEN PlainWalk(JoinAll(path, ReadDirNames(path)) \o rest, r, notes)
             ELSE PlainWalk(rest, r, notes)

\* C31: when the calls come one after another, files change only between them and
\* every write gives its file a new modification time, a Read returns the error and
\* the content, and a List or Search the notes with their tags, that a vault with no
\* cache returns from the files.
C31_CacheTransparent ==
    \A t \in Threads :
        /\ (th[t].op = "Read" /\ th[t].pc = "done" /\ th[t].full # "")
              => [err |-> th[t].err, out |-> th[t].out] = PlainRead(th[t].full)
        /\ (th[t].op \in WalkOps /\ th[t].pc = "done" /\ th[t].err = NoError)
              => th[t].notes = PlainWalk(<<th[t].full>>, th[t], <<>>)

\* A List has returned from the cache the tags of a note that was rewritten twice
\* since the vault was made, the second time by an Update.
C31_Witness ==
    /\ th[Client].op = "List" /\ th[Client].pc = "done" /\ th[Client].err = NoError
    /\ ~th[Client].modified
    /\ "/v/a.md" \in DOMAIN hist.written /\ hist.written["/v/a.md"] = "x #A"
    /\ fs["/v/a.md"].mtime = 2
    /\ th[Client].notes = <<[path |-> "a.md", tags |-> {"a"}]>>

\* C32: a Create or Update changes no cache entry up to the stat after its write, and
\* when that stat fails the call returns success in that step with the cache unchanged.
C32_RestatFailureIgnored ==
    [][\A t \in Threads :
          (th[t].op \in {"Create", "Update"} /\ th'[t].pc # th[t].pc)
            => /\ th[t].pc \in {"CreateStat", "CreateWrite", "CreateRestat",
                                "UpdateStat", "UpdateWrite", "UpdateRestat"}
                    => cache' = cache
               /\ (th[t].pc \in {"CreateRestat", "UpdateRestat"} /\ th[t].full \notin DOMAIN fs)
                    => th'[t].pc = "done" /\ th'[t].err = NoError]_vars

\* An Update has written "y" over a cached note, the file was removed before the
\* Update's stat, and the Update has returned success with the old entry still cached.
C32_Witness ==
    /\ th[Client].op = "Update" /\ th[Client].pc = "done" /\ th[Client].err = NoError
    /\ th[Client].arg2 = "y"
    /\ th[Client].full \notin DOMAIN fs
    /\ th[Client].full \in DOMAIN cache /\ cache[th[Client].full].content = "x #A"

\* A rooted, clean path strictly inside the vault root that ends in ".md".
NoteKey(k) ==
    /\ k # "" /\ Ch(k, 1) = Separator /\ Clean(k) = k
    /\ StrictlyInsideRoot(k)
    /\ HasSuffix(k, MdSuffix)

\* C33: every key of the cache map is a rooted path inside the vault root that ends in
\* ".md"; a Set called by Read, Create or Update is for the path validatePath returned,
\* and one called by List or Search is for a ".md" file at or below the search directory.
C33_CacheKeysAreNotes ==
    /\ \A k \in DOMAIN cache : NoteKey(k)
    /\ \A t \in Threads :
          th[t].pc \in {"SetLock", "SetStore"} =>
              /\ th[t].op \in NoteOps =>
                    th[t].key = th[t].full /\ th[t].full = validatePath(th[t].arg).full
              /\ th[t].op \in WalkOps =>
                    /\ th[t].full = searchDir(th[t].arg).full
                    /\ th[t].key = th[t].full \/ Below(th[t].key, th[t].full)
                    /\ HasSuffix(th[t].key, MdSuffix)

\* The cache holds the note a Create of "/v/a.md" made below the root, next to an
\* entry a List or a Read stored.
C33_Witness ==
    /\ "/v/v/a.md" \in DOMAIN cache
    /\ "/v/d/a.md" \in DOMAIN cache
    /\ th[Client].op = "Create" /\ th[Client].pc = "done"

\* The path a call of the cache or of a note operation is for.
PathOf(r) == IF r.op \in NoteOps THEN r.full ELSE r.key

\* The maps agree on every key but k.
SameButFor(k, m1, m2) ==
    \A x \in (DOMAIN m1 \cup DOMAIN m2) \ {k} :
        x \in DOMAIN m1 /\ x \in DOMAIN m2 /\ m1[x] = m2[x]

\* C34: a step of Get, Set, Delete, Read, Create or Update for a path changes no cache
\* entry of another path; a step of Get that changes the cache ends the Get with a
\* miss, so a Get that hits has left the whole cache as it was.
C34_KeyIndependence ==
    [][\A t \in Threads :
          (th[t].op \in {"Get", "Set", "Delete"} \cup NoteOps /\ th'[t].pc # th[t].pc)
            => /\ SameButFor(PathOf(th[t]), cache, cache')
               /\ (th[t].op = "Get" /\ cache' # cache)
                     => (th'[t].pc = "done" /\ ~th'[t].hit)
               /\ (th[t].op = "Get" /\ th'[t].pc = "done" /\ th'[t].hit)
                     => (cache' = cache /\ ~th[t].modified)]_vars

\* A Delete of one note's entry has returned; the other note's entry is in the map.
C34_Witness ==
    /\ th[Client].op = "Delete" /\ th[Client].pc = "done" /\ th[Client].key = "/v/a.md"
    /\ "/v/a.md" \in DOMAIN hist.deleted
    /\ "/v/a.md" \notin DOMAIN cache
    /\ "/v/d/a.md" \in DOMAIN cache

\* C35: validatePath answers PathTraversal only when the cleaned path has a ".."
\* segment or the joined path is not strictly inside the root, and accepts every
\* non-empty relative path that ends in ".md" and has no ".." segment once cleaned.
C35_TraversalOnlyForParentSegments ==
    \A t \in Threads :
        (th[t].op \in NoteOps /\ th[t].pc # "idle") =>
            LET arg == th[t].arg
                joined == Join(BasePath, Clean(arg))
            IN  /\ (th[t].pc = "done" /\ th[t].err = ErrPathTraversal)
                      => (HasParentSegment(arg) \/ ~StrictlyInsideRoot(joined))
                /\ (arg # "" /\ Ch(arg, 1) # Separator /\ HasSuffix(arg, MdSuffix)
                        /\ ~HasParentSegment(arg))
                      => (th[t].full = joined
                           /\ th[t].err \notin {ErrInvalidPath, ErrPathTraversal, ErrNotMarkdown})

\* A Create of "a..a.md" was refused as a traversal.
C35_DottedNameRefused ==
    /\ th[Client].op = "Create" /\ th[Client].arg = "a..a.md"
    /\ th[Client].pc = "done" /\ th[Client].err = ErrPathTraversal
    /\ th[Client].touched = {}

\* Neither a file nor a directory is at the path.
Missing(path) == path \notin DOMAIN fs /\ ~IsDir(path)

\* C36: a List or a Search whose subpath passes the traversal test and names nothing
\* in the vault, and whose context is not cancelled, returns no note and no error,
\* and has changed neither the cache nor the files.
C36_MissingSubpathIsEmpty ==
    \A t \in Threads :
        (th[t].op \in WalkOps /\ th[t].pc = "done" /\ th[t].full # ""
             /\ Missing(th[t].full) /\ ~th[t].cancelled)
          => /\ th[t].err = NoError
             /\ th[t].notes = <<>>
             /\ ~th[t].modified
             /\ th[t].touched \subseteq {th[t].full}

\* With notes in the cache from an earlier call, a List of "n", which names nothing,
\* has returned, and so has looked at /v/n.
C36_Witness ==
    /\ th[Client].op = "List" /\ th[Client].pc = "done" /\ th[Client].arg = "n"
    /\ th[Client].full = "/v/n" /\ th[Client].touched = {"/v/n"}
    /\ th[Client].err = NoError
    /\ "/v/a.md" \in DOMAIN cache
    /\ DOMAIN fs = DOMAIN WalkFiles

====
